---- MODULE Spec2Model ----
(***************************************************************************)
(* Model of ipscannr's discovery engine: the scan_hosts worker pool        *)
(* (scanner/ping.rs), the scan session kept by App and driven by run_app   *)
(* (app.rs, main.rs), and the on-disk result cache (cache.rs).             *)
(***************************************************************************)
EXTENDS Integers, Sequences, FiniteSets, Bags, TLC

(* ------------------------------ bounds -------------------------------- *)
\* longest address list a range input may denote
MaxAddrs == 4
\* largest PingerConfig.concurrent_limit explored (0..MaxLimit)
MaxLimit == 2
\* PingerConfig.concurrent_limit of the session's Config (100 in
\* Config::default, scaled down)
ConfigLimit == 1
\* capacity of the ping result channel and of the scan event channel
\* (mpsc::channel(256) in the program, scaled down)
ChanCap == 2
\* latest value of the clock read by now_secs
MaxClock == 2
\* the largest PingerConfig::retries
MaxRetries == 1
\* the number of resolve calls that can be in progress together
MaxCalls == 2
\* tokens of a typed range specification
MaxTokens == 2
\* probes of replaced runs that are followed
MaxDetached == 2

None == 0
NoHost == [ip |-> 0, is_alive |-> FALSE]

(* --------------------------- range inputs ----------------------------- *)
\* A range input is a comma list of tokens; a token <<lo, hi>> stands for the
\* dash range "10.0.0.lo-hi" (a single address when lo = hi).
RECURSIVE parse_range_from(_, _)
parse_range_from(lo, hi) ==
    IF lo > hi THEN << >> ELSE <<lo>> \o parse_range_from(lo + 1, hi)

\* IpRange::parse_range: fails when start > end
parse_range(tok) ==
    IF tok[1] > tok[2] THEN [ok |-> FALSE, addresses |-> << >>]
    ELSE [ok |-> TRUE, addresses |-> parse_range_from(tok[1], tok[2])]

\* IpRange::parse_comma_list: concatenation in token order, no dedup; the
\* first failing token fails the whole list; no address at all is an error
RECURSIVE parse_comma_list_from(_, _, _)
parse_comma_list_from(input, i, acc) ==
    IF i > Len(input)
    THEN IF acc = << >> THEN [ok |-> FALSE, addresses |-> << >>]
         ELSE [ok |-> TRUE, addresses |-> acc]
    ELSE LET range == parse_range(input[i]) IN
         IF ~range.ok THEN [ok |-> FALSE, addresses |-> << >>]
         ELSE parse_comma_list_from(input, i + 1, acc \o range.addresses)

\* IpRange::parse: the empty input is an error
IpRange_parse(input) ==
    IF input = << >> THEN [ok |-> FALSE, addresses |-> << >>]
    ELSE IF Len(input) > 1 THEN parse_comma_list_from(input, 1, << >>)
    ELSE parse_range(input[1])

\* the range inputs a user types in the session model
RangeInputs ==
    { << >>,                       \* ""
      << <<2, 1>> >>,              \* "10.0.0.2-1"  (start > end)
      << <<1, 2>> >>,              \* "10.0.0.1-2"
      << <<2, 2>>, <<1, 1>>, <<2, 2>> >> }   \* "10.0.0.2,10.0.0.1,10.0.0.2"

\* the range inputs of the scheduler model: every length up to MaxAddrs, and
\* a list that repeats an address
SchedInputs ==
    { << <<1, n>> >> : n \in 1..MaxAddrs } \cup { << <<2, 2>>, <<1, 2>> >> }

(* ------------------- IpRange::parse on text (range.rs) ----------------- *)
\* A text is a sequence of one-character strings.
Digits == <<"0", "1", "2", "3", "4", "5", "6", "7", "8", "9">>
IsDigit(c) == \E d \in 1..10 : Digits[d] = c
DigitVal(c) == (CHOOSE d \in 1..10 : Digits[d] = c) - 1

\* str::trim, str::contains, str::split
RECURSIVE trim_start(_)
trim_start(str) ==
    IF str # << >> /\ str[1] = " " THEN trim_start(Tail(str)) ELSE str
RECURSIVE trim_end(_)
trim_end(str) ==
    IF str # << >> /\ str[Len(str)] = " "
    THEN trim_end(SubSeq(str, 1, Len(str) - 1)) ELSE str
trim(str) == trim_end(trim_start(str))

contains(str, c) == \E i \in DOMAIN str : str[i] = c

RECURSIVE split(_, _)
split(str, c) ==
    IF ~contains(str, c) THEN <<str>>
    ELSE LET i == CHOOSE i \in DOMAIN str :
                     str[i] = c /\ \A j \in 1..(i - 1) : str[j] # c
         IN <<SubSeq(str, 1, i - 1)>> \o split(SubSeq(str, i + 1, Len(str)), c)

\* the number written by a text of digits
RECURSIVE digits_value(_)
digits_value(str) ==
    IF str = << >> THEN 0
    ELSE digits_value(SubSeq(str, 1, Len(str) - 1)) * 10
            + DigitVal(str[Len(str)])

\* str::parse::<u8>: an optional "+", then digits, at most 255
parse_u8(str) ==
    LET digits == IF str # << >> /\ str[1] = "+" THEN Tail(str) ELSE str IN
    IF digits = << >> \/ \E i \in DOMAIN digits : ~IsDigit(digits[i])
    THEN [ok |-> FALSE, value |-> 0]
    ELSE IF digits_value(digits) > 255 THEN [ok |-> FALSE, value |-> 0]
    ELSE [ok |-> TRUE, value |-> digits_value(digits)]

\* one octet of Ipv4Addr::from_str: one to three digits, no leading zero
octet_ok(str) ==
    /\ Len(str) \in 1..3
    /\ \A i \in DOMAIN str : IsDigit(str[i])
    /\ Len(str) > 1 => str[1] # "0"
    /\ digits_value(str) <= 255

\* Ipv4Addr::from_str, the address as its u32
Ipv4Addr_from_str(str) ==
    LET parts == split(str, ".") IN
    IF Len(parts) # 4 \/ \E i \in 1..4 : ~octet_ok(parts[i])
    THEN [ok |-> FALSE, value |-> 0]
    ELSE [ok |-> TRUE,
          value |-> ((digits_value(parts[1]) * 256 + digits_value(parts[2]))
                        * 256 + digits_value(parts[3])) * 256
                    + digits_value(parts[4])]

\* the addresses start..=end, ascending
RECURSIVE u32_range(_, _)
u32_range(start, end) ==
    IF start > end THEN << >> ELSE <<start>> \o u32_range(start + 1, end)

ParseError == [ok |-> FALSE, addresses |-> << >>]

\* parse_cidr leaving out the network and the broadcast address
parse_cidr_hosts(input) ==
    LET parts == split(input, "/") IN
    IF Len(parts) # 2 THEN ParseError
    ELSE LET addr == Ipv4Addr_from_str(parts[1])
             prefix == parse_u8(parts[2])
         IN IF ~addr.ok \/ ~prefix.ok \/ prefix.value > 32 THEN ParseError
            ELSE LET size == 2 ^ (32 - prefix.value)
                     network == addr.value - (addr.value % size)
                     addresses == u32_range(network + 1, network + size - 2)
                 IN IF addresses = << >> THEN ParseError
                    ELSE [ok |-> TRUE, addresses |-> addresses]

\* Ipv4Network::from_str with a numeric prefix, and Ipv4Network::iter: the
\* addresses from the network address to the broadcast address
parse_cidr(input) ==
    LET parts == split(input, "/") IN
    IF Len(parts) # 2 THEN ParseError
    ELSE LET addr == Ipv4Addr_from_str(parts[1])
             prefix == parse_u8(parts[2])
         IN IF ~addr.ok \/ ~prefix.ok \/ prefix.value > 32 THEN ParseError
            ELSE LET size == 2 ^ (32 - prefix.value)
                     network == addr.value - (addr.value % size)
                     addresses == u32_range(network, network + size - 1)
                 IN IF addresses = << >> THEN ParseError
                    ELSE [ok |-> TRUE, addresses |-> addresses]

\* parse_range with start..end in place of start..=end
IpRange_parse_range_exclusive(input) ==
    LET parts == split(input, "-") IN
    IF Len(parts) # 2 THEN ParseError
    ELSE LET start == Ipv4Addr_from_str(trim(parts[1])) IN
         IF ~start.ok THEN ParseError
         ELSE LET end == IF contains(trim(parts[2]), ".")
                         THEN Ipv4Addr_from_str(trim(parts[2]))
                         ELSE LET end_octet == parse_u8(trim(parts[2])) IN
                              [ok |-> end_octet.ok,
                               value |-> start.value - (start.value % 256)
                                            + end_octet.value]
              IN IF ~end.ok THEN ParseError
                 ELSE IF start.value > end.value THEN ParseError
                 ELSE [ok |-> TRUE,
                       addresses |-> u32_range(start.value, end.value - 1)]

\* IpRange::parse_range on text
IpRange_parse_range(input) ==
    LET parts == split(input, "-") IN
    IF Len(parts) # 2 THEN ParseError
    ELSE LET start == Ipv4Addr_from_str(trim(parts[1])) IN
         IF ~start.ok THEN ParseError
         ELSE LET end == IF contains(trim(parts[2]), ".")
                         THEN Ipv4Addr_from_str(trim(parts[2]))
                         ELSE LET end_octet == parse_u8(trim(parts[2])) IN
                              [ok |-> end_octet.ok,
                               value |-> start.value - (start.value % 256)
                                            + end_octet.value]
              IN IF ~end.ok THEN ParseError
                 ELSE IF start.value > end.value THEN ParseError
                 ELSE [ok |-> TRUE,
                       addresses |-> u32_range(start.value, end.value)]

\* a single address
parse_single(input) ==
    LET addr == Ipv4Addr_from_str(input) IN
    IF ~addr.ok THEN ParseError
    ELSE [ok |-> TRUE, addresses |-> <<addr.value>>]

\* IpRange::parse_comma_list: the loop over input.split(',')
RECURSIVE parse_parts(_, _, _)
parse_parts(parts, i, addresses) ==
    IF i > Len(parts)
    THEN IF addresses = << >> THEN ParseError
         ELSE [ok |-> TRUE, addresses |-> addresses]
    ELSE LET part == trim(parts[i]) IN
         IF part = << >> THEN parse_parts(parts, i + 1, addresses)
         ELSE LET range == IF contains(part, "/") THEN parse_cidr(part)
                           ELSE IF contains(part, "-")
                           THEN IpRange_parse_range(part)
                           ELSE parse_single(part)
              IN IF ~range.ok THEN ParseError
                 ELSE parse_parts(parts, i + 1, addresses \o range.addresses)

\* parse_comma_list keeping the first of the addresses that repeat
parse_comma_list_dedup(input) ==
    LET range == parse_parts(split(input, ","), 1, << >>)
        all == range.addresses
        kept == {i \in DOMAIN all : \A j \in 1..(i - 1) : all[j] # all[i]}
    IN [range EXCEPT !.addresses =
            [k \in 1..Cardinality(kept) |->
                all[CHOOSE i \in kept :
                        Cardinality({j \in kept : j <= i}) = k]]]

parse_comma_list(input) == parse_parts(split(input, ","), 1, << >>)

\* IpRange::parse on text
parse(text) ==
    LET input == trim(text) IN
    IF input = << >> THEN ParseError
    ELSE IF contains(input, ",") THEN parse_comma_list(input)
    ELSE IF contains(input, "/") THEN parse_cidr(input)
    ELSE IF contains(input, "-") THEN IpRange_parse_range(input)
    ELSE parse_single(input)

VARIABLES
    \* App (app.rs)
    scan_state, hosts, table_selected, scan_total, scan_completed,
    scan_cancel_tx, range_input, input_mode, export_message, concurrent_limit,
    \* run_app's locals (main.rs): the event receiver, and the AppCommand
    \* handled in the latest iteration of its loop
    scan_rx, command,
    \* the tasks and channels spawned by the latest successful start_scan
    run,
    \* the cache file and its temporary file on disk, the save_cache call in
    \* progress, the result of the latest load_cache, and the clock (cache.rs)
    disk_cache, disk_tmp, save, loaded, now,
    \* the Pinger::ping call in progress (ping.rs)
    probe,
    \* the PortScanner::scan_ports call in progress (port.rs)
    pscan,
    \* the DnsResolver and the resolve calls made on it (dns.rs)
    dns,
    \* the IpRange::parse call in progress (range.rs)
    parsing,
    \* the probes in progress in workers of runs that a later start replaced
    detached,
    \* one pass of the consumer loop of start_scan over a ping result (app.rs)
    enrich,
    \* the consumer task of the run that the latest start replaced (app.rs)
    earlier

appVars == <<scan_state, hosts, table_selected, scan_total, scan_completed,
             scan_cancel_tx, range_input, input_mode, export_message,
             concurrent_limit>>
vars == <<scan_state, hosts, table_selected, scan_total, scan_completed,
          scan_cancel_tx, range_input, input_mode, export_message,
          concurrent_limit, scan_rx, command, run,
          disk_cache, disk_tmp, save, loaded, now, probe, pscan, dns,
          parsing, detached, enrich,
                   earlier>>
cacheVars == <<disk_cache, disk_tmp, save, loaded, now>>
sessionVars == <<appVars, scan_rx, command, run>>
\* the calls of the scanner modules that are followed on their own
engineVars == <<probe, pscan, dns, parsing, detached, enrich,
                   earlier>>
\* everything but the ping call, but the scan_ports call, but the resolver,
\* but the parse call
exceptProbe == <<sessionVars, cacheVars, pscan, dns, parsing, detached, enrich,
                   earlier>>
exceptPscan == <<sessionVars, cacheVars, probe, dns, parsing, detached, enrich,
                   earlier>>
exceptDns == <<sessionVars, cacheVars, probe, pscan, parsing, detached, enrich,
                   earlier>>
exceptParsing == <<sessionVars, cacheVars, probe, pscan, dns, detached, enrich,
                   earlier>>
exceptDetached == <<cacheVars, probe, pscan, dns, parsing, enrich, earlier>>
\* everything but the pass of the consumer loop, but the replaced consumer
exceptEnrich ==
    <<sessionVars, cacheVars, probe, pscan, dns, parsing, detached, earlier>>
exceptEarlier == <<cacheVars, probe, pscan, dns, parsing, detached, enrich>>

(* ------------------------- scan_hosts (ping.rs) ------------------------ *)
\* scan_hosts: worker_count = concurrent_limit.max(1)
worker_count(limit) == IF limit > 1 THEN limit ELSE 1
\* scan_hosts: job queue capacity = worker_count * 2
job_cap(limit) == worker_count(limit) * 2
Workers == 1..worker_count(run.limit)

\* how many results scan_hosts has put on the results channel, per address
NoneDelivered == [ip \in 1..(MaxAddrs + 1) |-> 0]

\* before the first start_scan: no task exists
NoRun ==
    [addresses |-> << >>, limit |-> 0,
     fpc |-> "idle", fi |-> 1, jobq |-> << >>,
     wpc |-> <<"idle">>, wip |-> <<None>>, wres |-> <<FALSE>>, lock |-> None,
     permits |-> 0,
     pingq |-> << >>, cpc |-> "idle", chost |-> NoHost,
     cancelq |-> 0, eventq |-> << >>, delivered |-> NoneDelivered]

\* the tasks start_scan spawns: the consumer loop, scan_hosts (Pinger::new
\* with concurrent_limit permits) and its workers
NewRun(addrs, limit) ==
    [addresses |-> addrs, limit |-> limit,
     fpc |-> "feed", fi |-> 1, jobq |-> << >>,
     wpc |-> [w \in 1..worker_count(limit) |-> "lock"],
     wip |-> [w \in 1..worker_count(limit) |-> None],
     wres |-> [w \in 1..worker_count(limit) |-> FALSE],
     lock |-> None,
     permits |-> limit,
     pingq |-> << >>, cpc |-> "select", chost |-> NoHost,
     cancelq |-> 0, eventq |-> << >>, delivered |-> NoneDelivered]

AllWorkersDone == \A w \in Workers : run.wpc[w] = "done"
\* the job receiver lives in an Arc held by scan_hosts and by every worker
JobRxLive == run.fpc \in {"feed", "join"} \/ ~AllWorkersDone
\* job_tx is dropped after the feeding loop
JobTxLive == run.fpc = "feed"
\* progress_tx and its clones: held by scan_hosts and by every worker
PingTxLive == run.fpc \in {"feed", "join"} \/ ~AllWorkersDone
\* ping_rx, cancel_rx and event_tx are owned by the consumer task
PingRxLive == run.cpc # "done"
EventTxLive == run.cpc # "done"
\* the cancel sender is App::scan_cancel_tx, the event receiver is scan_rx
CancelTxLive == scan_cancel_tx = "Some"
EventRxLive == scan_rx = "Some"

\* Feed with an off-by-one in the feeding loop: every other address is skipped
Feed_skip ==
    /\ run.fpc = "feed"
    /\ IF run.fi > Len(run.addresses) \/ ~JobRxLive
       THEN run' = [run EXCEPT !.fpc = "join"]
       ELSE /\ Len(run.jobq) < job_cap(run.limit)
            /\ run' = [run EXCEPT !.jobq = Append(@, run.addresses[run.fi]),
                                  !.fi = @ + 2]
    /\ UNCHANGED <<appVars, scan_rx, command, cacheVars, engineVars>>

\* scan_hosts: for ip in addresses { job_tx.send(ip).await }, then drop(job_tx)
Feed ==
    /\ run.fpc = "feed"
    /\ IF run.fi > Len(run.addresses) \/ ~JobRxLive
       THEN run' = [run EXCEPT !.fpc = "join"]
       ELSE /\ Len(run.jobq) < job_cap(run.limit)
            /\ run' = [run EXCEPT !.jobq = Append(@, run.addresses[run.fi]),
                                  !.fi = @ + 1]
    /\ UNCHANGED <<appVars, scan_rx, command, cacheVars, engineVars>>

\* scan_hosts: for worker in workers { worker.await }; Ok(())
Join ==
    /\ run.fpc = "join"
    /\ AllWorkersDone
    /\ run' = [run EXCEPT !.fpc = "done"]
    /\ UNCHANGED <<appVars, scan_rx, command, cacheVars, engineVars>>

\* worker: rx.lock().await
WorkerLock(w) ==
    /\ run.wpc[w] = "lock"
    /\ run.lock = None
    /\ run' = [run EXCEPT !.lock = w, !.wpc[w] = "recv"]
    /\ UNCHANGED <<appVars, scan_rx, command, cacheVars, engineVars>>

\* worker: guard.recv().await; the guard is released at the end of the block
WorkerRecv(w) ==
    /\ run.wpc[w] = "recv"
    /\ IF run.jobq # << >>
       THEN run' = [run EXCEPT !.jobq = Tail(@), !.lock = None,
                               !.wip[w] = Head(run.jobq),
                               !.wpc[w] = "acquire"]
       ELSE /\ ~JobTxLive
            /\ run' = [run EXCEPT !.lock = None, !.wpc[w] = "done"]
    /\ UNCHANGED <<appVars, scan_rx, command, cacheVars, engineVars>>

\* Pinger::ping: self.semaphore.acquire().await
PingAcquire(w) ==
    /\ run.wpc[w] = "acquire"
    /\ run.permits > 0
    /\ run' = [run EXCEPT !.permits = @ - 1, !.wpc[w] = "probe"]
    /\ UNCHANGED <<appVars, scan_rx, command, cacheVars, engineVars>>

\* PingReturn with the permit forgotten instead of dropped
PingReturn_leak(w) ==
    /\ run.wpc[w] = "probe"
    /\ \E alive \in BOOLEAN :
         run' = [run EXCEPT !.wres[w] = alive, !.wpc[w] = "send"]
    /\ UNCHANGED <<appVars, scan_rx, command, cacheVars, engineVars>>

\* Pinger::ping: the probes, then the result is returned and _permit dropped
PingReturn(w) ==
    /\ run.wpc[w] = "probe"
    /\ \E alive \in BOOLEAN :
         run' = [run EXCEPT !.permits = @ + 1, !.wres[w] = alive,
                            !.wpc[w] = "send"]
    /\ UNCHANGED <<appVars, scan_rx, command, cacheVars, engineVars>>

\* worker: if tx.send(result).await.is_err() { break }
WorkerSend(w) ==
    /\ run.wpc[w] = "send"
    /\ IF ~PingRxLive
       THEN run' = [run EXCEPT !.wpc[w] = "done", !.wip[w] = None,
                               !.wres[w] = FALSE]
       ELSE /\ Len(run.pingq) < ChanCap
            /\ run' = [run EXCEPT
                   !.pingq = Append(@, [ip |-> run.wip[w],
                                        is_alive |-> run.wres[w]]),
                   !.delivered[run.wip[w]] = @ + 1,
                   !.wip[w] = None, !.wres[w] = FALSE,
                   !.wpc[w] = "lock"]
    /\ UNCHANGED <<appVars, scan_rx, command, cacheVars, engineVars>>

(* ------------------- consumer task of start_scan (app.rs) -------------- *)
\* select!: _ = cancel_rx.recv() => break  (on a signal, and on None once
\* the session has dropped its cancel handle); the task's ping_rx, cancel_rx
\* and event_tx are dropped
ConsumerCancel ==
    /\ run.cpc = "select"
    /\ run.cancelq > 0 \/ ~CancelTxLive
    /\ run' = [run EXCEPT !.cpc = "done", !.cancelq = 0, !.pingq = << >>]
    /\ UNCHANGED <<appVars, scan_rx, command, cacheVars, engineVars>>

\* the consumer taking an empty results channel for a closed one
ConsumerRecv_empty ==
    /\ run.cpc = "select"
    /\ IF run.pingq # << >>
       THEN run' = [run EXCEPT !.pingq = Tail(@),
                               !.chost = Head(run.pingq),
                               !.cpc = "send_host"]
       ELSE run' = [run EXCEPT !.cpc = "send_complete"]
    /\ UNCHANGED <<appVars, scan_rx, command, cacheVars, engineVars>>

\* select!: result = ping_rx.recv() => Some(ping_result): HostInfo::from,
\* or None: the completion event
ConsumerRecv ==
    /\ run.cpc = "select"
    /\ IF run.pingq # << >>
       THEN run' = [run EXCEPT !.pingq = Tail(@),
                               !.chost = Head(run.pingq),
                               !.cpc = "send_host"]
       ELSE /\ ~PingTxLive
            /\ run' = [run EXCEPT !.cpc = "send_complete"]
    /\ UNCHANGED <<appVars, scan_rx, command, cacheVars, engineVars>>

\* let _ = event_tx.send(ScanEvent::HostDiscovered(host)).await
ConsumerSendHost ==
    /\ run.cpc = "send_host"
    /\ IF ~EventRxLive
       THEN run' = [run EXCEPT !.chost = NoHost, !.cpc = "select"]
       ELSE /\ Len(run.eventq) < ChanCap
            /\ run' = [run EXCEPT
                   !.eventq = Append(@, [type |-> "HostDiscovered",
                                         host |-> run.chost]),
                   !.chost = NoHost, !.cpc = "select"]
    /\ UNCHANGED <<appVars, scan_rx, command, cacheVars, engineVars>>

\* let _ = event_tx.send(ScanEvent::ScanComplete).await; break
ConsumerSendComplete ==
    /\ run.cpc = "send_complete"
    /\ IF ~EventRxLive
       THEN run' = [run EXCEPT !.cpc = "done", !.cancelq = 0]
       ELSE /\ Len(run.eventq) < ChanCap
            /\ run' = [run EXCEPT
                   !.eventq = Append(@, [type |-> "ScanComplete",
                                         host |-> NoHost]),
                   !.cpc = "done", !.cancelq = 0]
    /\ UNCHANGED <<appVars, scan_rx, command, cacheVars, engineVars>>

(* ----------------------------- App (app.rs) ---------------------------- *)
\* the session fields of App, as one record, for the methods below
App ==
    [scan_state |-> scan_state, hosts |-> hosts,
     table_selected |-> table_selected, scan_total |-> scan_total,
     scan_completed |-> scan_completed, scan_cancel_tx |-> scan_cancel_tx,
     range_input |-> range_input]

\* hosts.sort_by_key(|h| h.ip): a stable sort
RECURSIVE sort_insert(_, _)
sort_insert(sorted, h) ==
    IF sorted = << >> THEN <<h>>
    ELSE IF sorted[Len(sorted)].ip <= h.ip THEN Append(sorted, h)
    ELSE Append(sort_insert(SubSeq(sorted, 1, Len(sorted) - 1), h),
                sorted[Len(sorted)])

RECURSIVE sort_by_ip(_)
sort_by_ip(s) ==
    IF s = << >> THEN << >>
    ELSE sort_insert(sort_by_ip(SubSeq(s, 1, Len(s) - 1)), s[Len(s)])

\* App::update_filtered_hosts with FilterMode::All: clamps the selection
\* (table_selected is 1-based, None when nothing is selected)
update_filtered_hosts(a) ==
    IF a.table_selected # None /\ a.table_selected > Len(a.hosts)
    THEN [a EXCEPT !.table_selected = Len(a.hosts)]
    ELSE a

\* handle_scan_event without the Paused test of ScanComplete
handle_scan_event_nopaused(a, event) ==
    IF event.type = "HostDiscovered"
    THEN LET b == update_filtered_hosts(
                     [a EXCEPT !.hosts = Append(@, event.host),
                               !.scan_completed = @ + 1])
         IN IF b.table_selected = None /\ b.hosts # << >>
            THEN [b EXCEPT !.table_selected = 1] ELSE b
    ELSE update_filtered_hosts(
             [a EXCEPT !.scan_state = "Completed",
                       !.scan_cancel_tx = "None",
                       !.hosts = sort_by_ip(@)])

\* handle_scan_event without the sort of ScanComplete
handle_scan_event_nosort(a, event) ==
    IF event.type = "HostDiscovered"
    THEN LET b == update_filtered_hosts(
                     [a EXCEPT !.hosts = Append(@, event.host),
                               !.scan_completed = @ + 1])
         IN IF b.table_selected = None /\ b.hosts # << >>
            THEN [b EXCEPT !.table_selected = 1] ELSE b
    ELSE update_filtered_hosts(
             [a EXCEPT !.scan_state = IF @ # "Paused" THEN "Completed" ELSE @,
                       !.scan_cancel_tx = "None"])

\* handle_scan_event keeping the cancel handle of a paused session
handle_scan_event_keeptx(a, event) ==
    IF event.type = "HostDiscovered"
    THEN LET b == update_filtered_hosts(
                     [a EXCEPT !.hosts = Append(@, event.host),
                               !.scan_completed = @ + 1])
         IN IF b.table_selected = None /\ b.hosts # << >>
            THEN [b EXCEPT !.table_selected = 1] ELSE b
    ELSE update_filtered_hosts(
             [a EXCEPT !.scan_state = IF @ # "Paused" THEN "Completed" ELSE @,
                       !.scan_cancel_tx = IF a.scan_state = "Paused"
                                          THEN @ ELSE "None",
                       !.hosts = sort_by_ip(@)])

\* handle_scan_event counting the completion event as a host
handle_scan_event_count(a, event) ==
    IF event.type = "HostDiscovered"
    THEN LET b == update_filtered_hosts(
                     [a EXCEPT !.hosts = Append(@, event.host),
                               !.scan_completed = @ + 1])
         IN IF b.table_selected = None /\ b.hosts # << >>
            THEN [b EXCEPT !.table_selected = 1] ELSE b
    ELSE update_filtered_hosts(
             [a EXCEPT !.scan_state = IF @ # "Paused" THEN "Completed" ELSE @,
                       !.scan_completed = @ + 1,
                       !.scan_cancel_tx = "None",
                       !.hosts = sort_by_ip(@)])

\* App::handle_scan_event
handle_scan_event(a, event) ==
    IF event.type = "HostDiscovered"
    THEN LET b == update_filtered_hosts(
                     [a EXCEPT !.hosts = Append(@, event.host),
                               !.scan_completed = @ + 1])
         IN IF b.table_selected = None /\ b.hosts # << >>
            THEN [b EXCEPT !.table_selected = 1] ELSE b
    ELSE update_filtered_hosts(
             [a EXCEPT !.scan_state = IF @ # "Paused" THEN "Completed" ELSE @,
                       !.scan_cancel_tx = "None",
                       !.hosts = sort_by_ip(@)])

\* start_scan resetting the session before it parses the range
start_scan_reset_first(a) ==
    LET range == IpRange_parse(a.range_input)
        cleared == [a EXCEPT !.hosts = << >>, !.table_selected = None,
                             !.scan_completed = 0]
    IN
    IF ~range.ok THEN [ok |-> FALSE, app |-> cleared, addresses |-> << >>]
    ELSE [ok |-> TRUE,
          app |-> [cleared EXCEPT !.scan_total = Len(range.addresses),
                                  !.scan_state = "Scanning",
                                  !.scan_cancel_tx = "Some"],
          addresses |-> range.addresses]

\* App::start_scan up to the spawn: a parse error returns first
start_scan(a) ==
    LET range == IpRange_parse(a.range_input) IN
    IF ~range.ok THEN [ok |-> FALSE, app |-> a, addresses |-> << >>]
    ELSE [ok |-> TRUE,
          app |-> [a EXCEPT !.hosts = << >>, !.table_selected = None,
                            !.scan_total = Len(range.addresses),
                            !.scan_completed = 0,
                            !.scan_state = "Scanning",
                            !.scan_cancel_tx = "Some"],
          addresses |-> range.addresses]

\* pause_scan without its test of scan_state
pause_scan_always(a) == [a EXCEPT !.scan_state = "Paused"]

\* App::pause_scan (the try_send is in KeyPause)
pause_scan(a) ==
    IF a.scan_state = "Scanning" THEN [a EXCEPT !.scan_state = "Paused"] ELSE a

\* App::resume_scan (scan_resume_tx is never set: nothing is sent)
resume_scan(a) ==
    IF a.scan_state = "Paused" THEN [a EXCEPT !.scan_state = "Scanning"] ELSE a

\* the fields of App after a method
SetApp(a) ==
    /\ scan_state' = a.scan_state
    /\ hosts' = a.hosts
    /\ table_selected' = a.table_selected
    /\ scan_total' = a.scan_total
    /\ scan_completed' = a.scan_completed
    /\ scan_cancel_tx' = a.scan_cancel_tx
    /\ range_input' = a.range_input

\* RunStartScan keeping the events that wait in the replaced receiver
RunStartScan_keeprx(a, cmd) ==
    LET res == start_scan(a) IN
    /\ SetApp(res.app)
    /\ command' = cmd
    /\ IF res.ok
       THEN /\ run' = [NewRun(res.addresses, concurrent_limit)
                         EXCEPT !.eventq = run.eventq]
            /\ scan_rx' = "Some"
            /\ export_message' = "None"
       ELSE /\ export_message' = "Error"
            /\ UNCHANGED <<run, scan_rx>>

\* run_app: match app.start_scan().await { Ok(rx) => scan_rx = Some(rx),
\* Err(e) => app.export_message = Some(..) }.  On Ok the new tasks start; the
\* previous run loses its cancel sender and its event receiver, so nothing it
\* does can reach the session any more, and it is no longer followed here.
RunStartScan(a, cmd) ==
    LET res == start_scan(a) IN
    /\ SetApp(res.app)
    /\ command' = cmd
    /\ IF res.ok
       THEN /\ run' = NewRun(res.addresses, concurrent_limit)
            /\ scan_rx' = "Some"
            /\ export_message' = "None"
       ELSE /\ export_message' = "Error"
            /\ UNCHANGED <<run, scan_rx>>

(* --------------------------- run_app (main.rs) ------------------------- *)
\* scan event branch: app.handle_scan_event(scan_event), else scan_rx = None
MainRecvEvent ==
    /\ scan_rx = "Some"
    /\ IF run.eventq # << >>
       THEN /\ SetApp(handle_scan_event(App, Head(run.eventq)))
            /\ run' = [run EXCEPT !.eventq = Tail(@)]
            /\ UNCHANGED scan_rx
       ELSE /\ ~EventTxLive
            /\ scan_rx' = "None"
            /\ UNCHANGED <<scan_state, hosts, table_selected, scan_total,
                           scan_completed, scan_cancel_tx, range_input, run>>
    /\ command' = "None"
    /\ UNCHANGED <<input_mode, export_message, concurrent_limit>>
    /\ UNCHANGED <<cacheVars, engineVars>>

\* Action::StartScan / Action::Select in normal mode -> AppCommand::StartScan
KeyStartScan ==
    /\ input_mode = "Normal"
    /\ scan_state # "Scanning"
    /\ RunStartScan(App, "StartScan")
    /\ UNCHANGED <<input_mode, concurrent_limit>>
    /\ UNCHANGED <<cacheVars, engineVars>>

\* Action::Cancel while Scanning / Action::StopScan: pause_scan, with its
\* non-blocking try_send on the cancel channel (capacity 1)
KeyPause ==
    /\ scan_state = "Scanning"
    /\ SetApp(pause_scan(App))
    /\ run' = IF scan_cancel_tx = "Some" /\ run.cpc # "done" /\ run.cancelq < 1
              THEN [run EXCEPT !.cancelq = 1] ELSE run
    /\ export_message' = "None"
    /\ command' = "None"
    /\ UNCHANGED <<input_mode, concurrent_limit, scan_rx>>
    /\ UNCHANGED <<cacheVars, engineVars>>

\* Action::ToggleSelect while Paused -> AppCommand::ResumeScan:
\* app.resume_scan(); app.start_scan()
KeyResume ==
    /\ input_mode = "Normal"
    /\ scan_state = "Paused"
    /\ RunStartScan(resume_scan(App), "ResumeScan")
    /\ UNCHANGED <<input_mode, concurrent_limit>>
    /\ UNCHANGED <<cacheVars, engineVars>>

\* Action::EditRange in normal mode
KeyEditRange ==
    /\ input_mode = "Normal"
    /\ input_mode' = "EditingRange"
    /\ export_message' = "None"
    /\ command' = "None"
    /\ UNCHANGED <<scan_state, hosts, table_selected, scan_total,
                   scan_completed, scan_cancel_tx, range_input,
                   concurrent_limit, scan_rx, run>>
    /\ UNCHANGED <<cacheVars, engineVars>>

\* handle_editing_range_action: Character / Backspace change range_input
KeyEditType(input) ==
    /\ input_mode = "EditingRange"
    /\ input # range_input
    /\ range_input' = input
    /\ export_message' = "None"
    /\ command' = "None"
    /\ UNCHANGED <<scan_state, hosts, table_selected, scan_total,
                   scan_completed, scan_cancel_tx, input_mode,
                   concurrent_limit, scan_rx, run>>
    /\ UNCHANGED <<cacheVars, engineVars>>

\* handle_editing_range_action: Cancel (when not Scanning) leaves edit mode
KeyEditCancel ==
    /\ input_mode = "EditingRange"
    /\ scan_state # "Scanning"
    /\ input_mode' = "Normal"
    /\ export_message' = "None"
    /\ command' = "None"
    /\ UNCHANGED <<scan_state, hosts, table_selected, scan_total,
                   scan_completed, scan_cancel_tx, range_input,
                   concurrent_limit, scan_rx, run>>
    /\ UNCHANGED <<cacheVars, engineVars>>

\* handle_editing_range_action: Select leaves edit mode and starts a scan
\* when not Scanning and the range is not empty
KeyEditSelect ==
    /\ input_mode = "EditingRange"
    /\ input_mode' = "Normal"
    /\ IF scan_state # "Scanning" /\ range_input # << >>
       THEN RunStartScan(App, "StartScan")
       ELSE /\ export_message' = "None"
            /\ command' = "None"
            /\ UNCHANGED <<scan_state, hosts, table_selected, scan_total,
                           scan_completed, scan_cancel_tx, range_input,
                           scan_rx, run>>
    /\ UNCHANGED concurrent_limit
    /\ UNCHANGED <<cacheVars, engineVars>>

(* ------------- the consumer task of a replaced run (app.rs) ------------- *)
\* no run was replaced yet.  pingq is the number of results waiting in the
\* replaced run's results channel, left the number its workers have still
\* to send
NoEarlier == [cpc |-> "none", pingq |-> 0, left |-> 0]

\* the latest start replaces scan_cancel_tx and scan_rx: the consumer task
\* of the run so far goes on without a cancel sender and without an event
\* receiver; a consumer that had ended stays ended
Detach(r) ==
    IF r.cpc = "idle" THEN NoEarlier
    ELSE IF r.cpc = "done" THEN [cpc |-> "done", pingq |-> 0, left |-> 0]
    ELSE [cpc |-> r.cpc, pingq |-> Len(r.pingq),
          left |-> (Len(r.addresses) + 1 - r.fi) + Len(r.jobq)
                   + Cardinality({w \in DOMAIN r.wip : r.wip[w] # None})]

\* one replaced consumer is followed at a time
Follow ==
    IF IpRange_parse(range_input).ok
    THEN /\ earlier.cpc \in {"none", "done"}
         /\ earlier' = Detach(run)
    ELSE UNCHANGED earlier

StartScanFollowing ==
    /\ input_mode = "Normal"
    /\ scan_state # "Scanning"
    /\ RunStartScan(App, "StartScan")
    /\ Follow
    /\ UNCHANGED <<input_mode, concurrent_limit>>
    /\ UNCHANGED exceptEarlier

ResumeFollowing ==
    /\ input_mode = "Normal"
    /\ scan_state = "Paused"
    /\ RunStartScan(resume_scan(App), "ResumeScan")
    /\ Follow
    /\ UNCHANGED <<input_mode, concurrent_limit>>
    /\ UNCHANGED exceptEarlier

\* a worker of the replaced run sends its result, or ends on the send error
\* once the consumer has dropped ping_rx
EarlierWorkerSend ==
    /\ earlier.left > 0
    /\ IF earlier.cpc = "done"
       THEN earlier' = [earlier EXCEPT !.left = 0]
       ELSE /\ earlier.pingq < ChanCap
            /\ earlier' = [earlier EXCEPT !.pingq = @ + 1, !.left = @ - 1]
    /\ UNCHANGED <<sessionVars, exceptEarlier>>

\* select!: _ = cancel_rx.recv() => break: the sender was dropped when
\* scan_cancel_tx was replaced, so recv() is ready with None
EarlierCancel ==
    /\ earlier.cpc = "select"
    /\ earlier' = [earlier EXCEPT !.cpc = "done", !.pingq = 0]
    /\ UNCHANGED <<sessionVars, exceptEarlier>>

\* select!: result = ping_rx.recv()
EarlierRecv ==
    /\ earlier.cpc = "select"
    /\ IF earlier.pingq > 0
       THEN earlier' = [earlier EXCEPT !.pingq = @ - 1, !.cpc = "send_host"]
       ELSE /\ earlier.left = 0
            /\ earlier' = [earlier EXCEPT !.cpc = "send_complete"]
    /\ UNCHANGED <<sessionVars, exceptEarlier>>

\* let _ = event_tx.send(HostDiscovered(host)).await: the receiver was
\* dropped when scan_rx was replaced, the send returns its error at once
EarlierSendHost ==
    /\ earlier.cpc = "send_host"
    /\ earlier' = [earlier EXCEPT !.cpc = "select"]
    /\ UNCHANGED <<sessionVars, exceptEarlier>>

\* let _ = event_tx.send(ScanComplete).await; break
EarlierSendComplete ==
    /\ earlier.cpc = "send_complete"
    /\ earlier' = [earlier EXCEPT !.cpc = "done"]
    /\ UNCHANGED <<sessionVars, exceptEarlier>>

(* ------------- pause_scan and resume_scan called in any state ---------- *)
\* App::pause_scan in whatever state the session is: in Scanning the
\* try_send puts a signal into the cancel channel if there is a handle, the
\* receiver lives and the channel (capacity 1) is empty, and fails at once
\* if not
PauseCall ==
    /\ SetApp(pause_scan(App))
    /\ run' = IF /\ scan_state = "Scanning"
                 /\ scan_cancel_tx = "Some"
                 /\ run.cpc # "done"
                 /\ run.cancelq < 1
              THEN [run EXCEPT !.cancelq = 1] ELSE run
    /\ command' = "pause_scan"
    /\ UNCHANGED <<input_mode, export_message, concurrent_limit, scan_rx>>
    /\ UNCHANGED <<cacheVars, engineVars>>

\* App::resume_scan in whatever state the session is: scan_resume_tx is
\* None, so nothing is sent
ResumeCall ==
    /\ SetApp(resume_scan(App))
    /\ command' = "resume_scan"
    /\ UNCHANGED <<input_mode, export_message, concurrent_limit, scan_rx,
                   run>>
    /\ UNCHANGED <<cacheVars, engineVars>>

(* --------------- runs replaced by a later start (app.rs) --------------- *)
\* the workers of the current run that are inside Pinger::ping with a permit
InFlight == Cardinality({w \in Workers : run.wpc[w] = "probe"})

\* start_scan replaces scan_cancel_tx and run_app replaces scan_rx, and
\* nothing stops the tasks of the run before: its workers go on with the
\* probe they are in, on the Pinger of their own scan_hosts call
Replace ==
    IF scan_rx' = "Some" /\ run' # run
    THEN /\ detached + InFlight <= MaxDetached
         /\ detached' = detached + InFlight
    ELSE UNCHANGED detached

\* AppCommand::StartScan, the run before followed
StartScanReplacing ==
    /\ input_mode = "Normal"
    /\ scan_state # "Scanning"
    /\ RunStartScan(App, "StartScan")
    /\ Replace
    /\ UNCHANGED <<input_mode, concurrent_limit>>
    /\ UNCHANGED exceptDetached

\* AppCommand::ResumeScan, the run before followed
ResumeReplacing ==
    /\ input_mode = "Normal"
    /\ scan_state = "Paused"
    /\ RunStartScan(resume_scan(App), "ResumeScan")
    /\ Replace
    /\ UNCHANGED <<input_mode, concurrent_limit>>
    /\ UNCHANGED exceptDetached

\* a probe of a replaced run returns and its permit is dropped
DetachedReturn ==
    /\ detached > 0
    /\ detached' = detached - 1
    /\ UNCHANGED <<sessionVars, exceptDetached>>

(* ------------------------- result cache (cache.rs) --------------------- *)
CacheKeys == {"A", "B"}
\* the host lists handed to save_cache
HostLists ==
    { << >>,
      << [ip |-> 1, is_alive |-> TRUE, open_ports |-> <<80, 443>>,
          ports_scanned |-> TRUE, method |-> "Icmp", status |-> "Online"] >>,
      << [ip |-> 2, is_alive |-> FALSE, open_ports |-> << >>,
          ports_scanned |-> TRUE, method |-> "Tcp", status |-> "Offline"],
         [ip |-> 1, is_alive |-> TRUE, open_ports |-> <<22>>,
          ports_scanned |-> TRUE, method |-> "Tcp",
          status |-> "OnlineNoIcmp"] >> }

\* CacheFile = HashMap<String, CacheEntry>: a key without entry maps to NoEntry
NoEntry == [present |-> FALSE, scanned_at |-> 0, hosts |-> << >>]
EmptyCacheFile == [k \in CacheKeys |-> NoEntry]
\* what a path holds: no file, a file that is not a JSON document (malformed
\* or written in part), or a serialized CacheFile
Absent == [kind |-> "absent", map |-> EmptyCacheFile]
Malformed == [kind |-> "malformed", map |-> EmptyCacheFile]
Doc(m) == [kind |-> "doc", map |-> m]

\* Ipv4Addr::to_string: the dotted text of 10.0.0.ip, as its four numbers
ip_to_string(ip) == <<10, 0, 0, ip>>
\* str::parse::<Ipv4Addr>: four numbers of one byte each
ip_parse(str) ==
    IF Len(str) = 4 /\ \A i \in 1..4 : str[i] \in 0..255
    THEN [ok |-> TRUE, ip |-> str[4]]
    ELSE [ok |-> FALSE, ip |-> 0]
\* Display for PingMethod
method_to_string(m) == IF m = "Icmp" THEN "ICMP" ELSE "TCP"

\* Display for HostStatus
status_display(st) ==
    CASE st = "Online" -> "Online"
      [] st = "OnlineNoIcmp" -> "Online (no ICMP)"
      [] OTHER -> "Offline"
\* save_cache: match h.status { .. => "..".to_string() }
status_to_string(st) ==
    CASE st = "Online" -> "Online"
      [] st = "OnlineNoIcmp" -> "OnlineNoIcmp"
      [] OTHER -> "Offline"

\* save_cache writing the status with its Display text
to_cached_display(h) ==
    [ip |-> ip_to_string(h.ip), is_alive |-> h.is_alive,
     open_ports |-> h.open_ports, method |-> method_to_string(h.method),
     status |-> status_display(h.status)]

\* save_cache: HostInfo -> CachedHost
to_cached(h) ==
    [ip |-> ip_to_string(h.ip), is_alive |-> h.is_alive,
     open_ports |-> h.open_ports, method |-> method_to_string(h.method),
     status |-> status_to_string(h.status)]
\* load_cache: CachedHost -> HostInfo, cached_at = Some(scanned_at); an
\* unknown method reads as Tcp, an unknown status follows is_alive
from_cached(c, scanned_at) ==
    [ip |-> ip_parse(c.ip).ip, is_alive |-> c.is_alive,
     open_ports |-> c.open_ports, ports_scanned |-> c.open_ports # << >>,
     cached_at |-> scanned_at,
     method |-> IF c.method = "ICMP" THEN "Icmp" ELSE "Tcp",
     status |-> IF c.status \in {"Online", "OnlineNoIcmp", "Offline"}
                THEN c.status
                ELSE IF c.is_alive THEN "Online" ELSE "Offline"]
\* load_cache: filter_map drops a cached host whose ip does not parse
parses(c) == ip_parse(c.ip).ok

\* read_to_string(..).ok().and_then(from_str(..).ok()).unwrap_or_default()
read_cache_file(content) ==
    IF content.kind = "doc" THEN content.map ELSE EmptyCacheFile

\* load_cache raising the read or parse failure instead of returning empty
load_cache_raise(content, range) ==
    IF content.kind # "doc" THEN <<"Err">>
    ELSE IF ~content.map[range].present THEN << >>
    ELSE LET kept == SelectSeq(content.map[range].hosts, parses)
         IN [i \in DOMAIN kept |->
                from_cached(kept[i], content.map[range].scanned_at)]

\* load_cache: the empty list on a missing or malformed file or a missing key
load_cache(content, range) ==
    IF content.kind # "doc" THEN << >>
    ELSE IF ~content.map[range].present THEN << >>
    ELSE LET kept == SelectSeq(content.map[range].hosts, parses)
         IN [i \in DOMAIN kept |->
                from_cached(kept[i], content.map[range].scanned_at)]

\* no save_cache call is in progress; called_at is the time of the call
NoSave ==
    [pc |-> "idle", range |-> "A", hosts |-> << >>, called_at |-> 0,
     old |-> Absent, json |-> Absent]
\* no load_cache call has returned yet
NoLoad == [called |-> FALSE, range |-> "A", hosts |-> << >>]

\* save_cache without its test of hosts.is_empty()
SaveBegin_noearly(range, hs) ==
    /\ save.pc \in {"idle", "returned"}
    /\ save' = [pc |-> "read", range |-> range, hosts |-> hs,
                called_at |-> now, old |-> disk_cache, json |-> Absent]
    /\ UNCHANGED <<disk_cache, disk_tmp, loaded, now, sessionVars, engineVars>>

\* save_cache is called: if hosts.is_empty() { return }; pc is "returned"
\* after a call that returned there, until the next call
SaveBegin(range, hs) ==
    /\ save.pc \in {"idle", "returned"}
    /\ save' = IF hs = << >>
               THEN [NoSave EXCEPT !.pc = "returned", !.range = range]
               ELSE [pc |-> "read", range |-> range, hosts |-> hs,
                     called_at |-> now, old |-> disk_cache, json |-> Absent]
    /\ UNCHANGED <<disk_cache, disk_tmp, loaded, now, sessionVars, engineVars>>

\* save_cache: the entry is built with now_secs(), the existing file is read
\* and merged, cache_file.insert(range, entry), to_string_pretty
SaveRead ==
    /\ save.pc = "read"
    /\ LET entry == [present |-> TRUE, scanned_at |-> now,
                     hosts |-> [i \in DOMAIN save.hosts |->
                                   to_cached(save.hosts[i])]]
           cache_file == [read_cache_file(disk_cache) EXCEPT
                             ![save.range] = entry]
       IN save' = [save EXCEPT !.pc = "write", !.json = Doc(cache_file)]
    /\ UNCHANGED <<disk_cache, disk_tmp, loaded, now, sessionVars, engineVars>>

\* std::fs::write(&tmp_path, json): the file is created or truncated, then
\* filled; it can fail before or after the file exists
SaveWriteCreate ==
    /\ save.pc = "write"
    /\ \/ /\ disk_tmp' = Malformed
          /\ save' = [save EXCEPT !.pc = "writing"]
       \/ /\ UNCHANGED disk_tmp
          /\ save' = NoSave
    /\ UNCHANGED <<disk_cache, loaded, now, sessionVars, engineVars>>

SaveWriteFill ==
    /\ save.pc = "writing"
    /\ \/ /\ disk_tmp' = save.json
          /\ save' = [save EXCEPT !.pc = "remove"]
       \/ /\ UNCHANGED disk_tmp
          /\ save' = NoSave
    /\ UNCHANGED <<disk_cache, loaded, now, sessionVars, engineVars>>

\* let _ = std::fs::remove_file(&cache_path)
SaveRemove ==
    /\ save.pc = "remove"
    /\ \/ disk_cache' = Absent
       \/ UNCHANGED disk_cache
    /\ save' = [save EXCEPT !.pc = "rename"]
    /\ UNCHANGED <<disk_tmp, loaded, now, sessionVars, engineVars>>

\* std::fs::rename(&tmp_path, &cache_path), which may fail
SaveRename ==
    /\ save.pc = "rename"
    /\ \/ /\ disk_cache' = disk_tmp
          /\ disk_tmp' = Absent
          /\ save' = NoSave
       \/ /\ UNCHANGED <<disk_cache, disk_tmp>>
          /\ save' = [save EXCEPT !.pc = "copy"]
    /\ UNCHANGED <<loaded, now, sessionVars, engineVars>>

\* let _ = std::fs::copy(&tmp_path, &cache_path): the target is created or
\* truncated, then filled; it can fail before or after the target exists
SaveCopyCreate ==
    /\ save.pc = "copy"
    /\ \/ /\ disk_cache' = Malformed
          /\ save' = [save EXCEPT !.pc = "copying"]
       \/ /\ UNCHANGED disk_cache
          /\ save' = [save EXCEPT !.pc = "rmtmp"]
    /\ UNCHANGED <<disk_tmp, loaded, now, sessionVars, engineVars>>

SaveCopyFill ==
    /\ save.pc = "copying"
    /\ \/ disk_cache' = disk_tmp
       \/ UNCHANGED disk_cache
    /\ save' = [save EXCEPT !.pc = "rmtmp"]
    /\ UNCHANGED <<disk_tmp, loaded, now, sessionVars, engineVars>>

\* let _ = std::fs::remove_file(&tmp_path)
SaveRemoveTmp ==
    /\ save.pc = "rmtmp"
    /\ \/ disk_tmp' = Absent
       \/ UNCHANGED disk_tmp
    /\ save' = NoSave
    /\ UNCHANGED <<disk_cache, loaded, now, sessionVars, engineVars>>

\* the process stops in the middle of save_cache
Crash ==
    /\ save.pc \notin {"idle", "returned", "crashed"}
    /\ save' = [save EXCEPT !.pc = "crashed"]
    /\ UNCHANGED <<disk_cache, disk_tmp, loaded, now, sessionVars, engineVars>>

\* the program is started again
Restart ==
    /\ save.pc = "crashed"
    /\ save' = NoSave
    /\ loaded' = NoLoad
    /\ UNCHANGED <<disk_cache, disk_tmp, now, sessionVars, engineVars>>

\* load_cache(range)
Load(range) ==
    /\ save.pc \in {"idle", "returned"}
    /\ loaded' = [called |-> TRUE, range |-> range,
                   hosts |-> load_cache(disk_cache, range)]
    /\ UNCHANGED <<disk_cache, disk_tmp, save, now, sessionVars, engineVars>>

\* time passes
Tick ==
    /\ now < MaxClock
    /\ now' = now + 1
    /\ UNCHANGED <<disk_cache, disk_tmp, save, loaded, sessionVars, engineVars>>

\* no cache operation is in progress and none is followed
CacheQuiet ==
    /\ disk_cache = Absent
    /\ disk_tmp = Absent
    /\ save = NoSave
    /\ loaded = NoLoad
    /\ now = 0

(* ------------------------- Pinger::ping (ping.rs) ---------------------- *)
\* the candidate ports of the TCP probe, in the order they are tried
TcpPorts == <<80, 443, 22, 445, 139, 135, 3389, 21, 23, 25, 53>>
\* what surge_ping's ping under timeout() can end with
IcmpOutcomes == {"reply", "error", "timeout"}
\* what TcpStream::connect under timeout() can end with
TcpOutcomes == {"connected", "refused", "error", "timeout"}

\* Pinger::icmp_ping: Some(rtt) on Ok(Ok(..)), None otherwise
icmp_ping(outcome) == outcome = "reply"

\* tcp_ping taking only an established connection for an answer
tcp_ping_established(outcome) == outcome = "connected"

\* Pinger::tcp_ping: Some(rtt) on Ok(Ok(_)) and on ConnectionRefused
tcp_ping(outcome) == outcome \in {"connected", "refused"}

\* the PingResult of an ICMP reply reported as found without ICMP
icmp_result_noicmp ==
    [is_alive |-> TRUE, rtt |-> "Some", method |-> "Icmp",
     status |-> "OnlineNoIcmp"]

\* the PingResult of the first ICMP reply
icmp_result ==
    [is_alive |-> TRUE, rtt |-> "Some", method |-> "Icmp",
     status |-> "Online"]

\* the PingResult of a TCP answer reported Online whatever ICMP did
tcp_result_online(icmp_client) ==
    [is_alive |-> TRUE, rtt |-> "Some", method |-> "Tcp",
     status |-> "Online"]

\* the PingResult of the first TCP answer
tcp_result(icmp_client) ==
    [is_alive |-> TRUE, rtt |-> "Some", method |-> "Tcp",
     status |-> IF icmp_client THEN "OnlineNoIcmp" ELSE "Online"]

\* the PingResult when no probe was answered
offline_result(icmp_client) ==
    [is_alive |-> FALSE, rtt |-> "None",
     method |-> IF icmp_client THEN "Icmp" ELSE "Tcp",
     status |-> "Offline"]

NoResult ==
    [is_alive |-> FALSE, rtt |-> "None", method |-> "None",
     status |-> "None"]

\* no ping call is followed.  attempts is the list of probes made so far
\* (<<"icmp", seq>> or <<"tcp", port>>), seen the set of <<kind, outcome>>
\* they ended with
NoProbe ==
    [pc |-> "idle", icmp_client |-> FALSE, retries |-> 0, attempt |-> 0,
     port |-> 1, attempts |-> << >>, seen |-> {}, result |-> NoResult]

\* Pinger::ping is called on a Pinger with or without an ICMP client
ProbeCall(icmp, retries) ==
    /\ probe.pc \in {"idle", "done"}
    /\ probe' = [NoProbe EXCEPT !.pc = "acquire", !.icmp_client = icmp,
                                !.retries = retries]
    /\ UNCHANGED exceptProbe

\* self.semaphore.acquire().await: the semaphore is never closed, so the
\* permit is granted; then the ICMP loop if there is a client
ProbeAcquire ==
    /\ probe.pc = "acquire"
    /\ probe' = [probe EXCEPT
                   !.pc = IF probe.icmp_client THEN "icmp" ELSE "tcp"]
    /\ UNCHANGED exceptProbe

\* the ICMP loop going on to its next attempt after a reply
ProbeIcmp_noreturn(outcome) ==
    /\ probe.pc = "icmp"
    /\ LET p == [probe EXCEPT
                   !.attempts = Append(@, <<"icmp", probe.attempt>>),
                   !.seen = @ \cup {<<"icmp", outcome>>}]
       IN probe' =
            IF probe.attempt < probe.retries
            THEN [p EXCEPT !.attempt = @ + 1]
            ELSE IF icmp_ping(outcome)
            THEN [p EXCEPT !.pc = "done", !.result = icmp_result]
            ELSE [p EXCEPT !.pc = "tcp", !.attempt = 0, !.port = 1]
    /\ UNCHANGED exceptProbe

\* for attempt in 0..=retries { if let Some(rtt) = icmp_ping(..) { return } }
ProbeIcmp(outcome) ==
    /\ probe.pc = "icmp"
    /\ LET p == [probe EXCEPT
                   !.attempts = Append(@, <<"icmp", probe.attempt>>),
                   !.seen = @ \cup {<<"icmp", outcome>>}]
       IN probe' =
            IF icmp_ping(outcome)
            THEN [p EXCEPT !.pc = "done", !.result = icmp_result]
            ELSE IF probe.attempt < probe.retries
            THEN [p EXCEPT !.attempt = @ + 1]
            ELSE [p EXCEPT !.pc = "tcp", !.attempt = 0, !.port = 1]
    /\ UNCHANGED exceptProbe

\* for _ in 0..=retries { for &port in &ports { if let Some(rtt) =
\* tcp_ping(ip, port) { return } } }, then the Offline result
ProbeTcp(outcome) ==
    /\ probe.pc = "tcp"
    /\ LET p == [probe EXCEPT
                   !.attempts = Append(@, <<"tcp", TcpPorts[probe.port]>>),
                   !.seen = @ \cup {<<"tcp", outcome>>}]
       IN probe' =
            IF tcp_ping(outcome)
            THEN [p EXCEPT !.pc = "done",
                           !.result = tcp_result(probe.icmp_client)]
            ELSE IF probe.port < Len(TcpPorts)
            THEN [p EXCEPT !.port = @ + 1]
            ELSE IF probe.attempt < probe.retries
            THEN [p EXCEPT !.attempt = @ + 1, !.port = 1]
            ELSE [p EXCEPT !.pc = "done",
                           !.result = offline_result(probe.icmp_client)]
    /\ UNCHANGED exceptProbe

(* --------------------- PortScanner::scan_ports (port.rs) --------------- *)
\* the port lists handed to scan_ports
PortLists == {<< >>, <<80>>, <<443, 80>>, <<80, 22, 80>>}

\* results.sort_by_key(|r| r.port): a stable sort
RECURSIVE port_insert(_, _)
port_insert(sorted, r) ==
    IF sorted = << >> THEN <<r>>
    ELSE IF sorted[Len(sorted)].port <= r.port THEN Append(sorted, r)
    ELSE Append(port_insert(SubSeq(sorted, 1, Len(sorted) - 1), r),
                sorted[Len(sorted)])

RECURSIVE sort_by_port(_)
sort_by_port(rs) ==
    IF rs = << >> THEN << >>
    ELSE port_insert(sort_by_port(SubSeq(rs, 1, Len(rs) - 1)), rs[Len(rs)])

\* scan_port taking a refused connection for an answer, as tcp_ping does
is_open_refused(outcome) == outcome \in {"connected", "refused"}

\* scan_port: is_open = timeout(connect).map(|r| r.is_ok()).unwrap_or(false)
is_open(outcome) == outcome = "connected"

\* result channel: mpsc::channel(ports.len().max(1))
result_cap(ports) == IF Len(ports) > 1 THEN Len(ports) ELSE 1

PortWorkers == 1..worker_count(pscan.limit)

\* no scan_ports call is followed
NoPortScan ==
    [ports |-> << >>, limit |-> 1, mpc |-> "idle", fi |-> 1, jobq |-> << >>,
     wpc |-> <<"idle">>, wport |-> <<0>>, wconn |-> <<"None">>, wopen |-> <<FALSE>>,
     lock |-> 0,
     permits |-> 1, resultq |-> << >>, results |-> << >>, ret |-> << >>]

\* every worker task has ended, and with it its clone of result_tx
PortWorkersDone == \A w \in PortWorkers : pscan.wpc[w] = "done"

\* scan_ports on a PortScanner of the given concurrent_limit: the channels
\* are made, the workers spawned, result_tx dropped
NewPortScan(ports, limit) ==
    [ports |-> ports, limit |-> limit, mpc |-> "feed", fi |-> 1,
     jobq |-> << >>,
     wpc |-> [w \in 1..worker_count(limit) |-> "lock"],
     wport |-> [w \in 1..worker_count(limit) |-> 0],
     wconn |-> [w \in 1..worker_count(limit) |-> "None"],
     wopen |-> [w \in 1..worker_count(limit) |-> FALSE],
     lock |-> 0, permits |-> limit,
     resultq |-> << >>, results |-> << >>, ret |-> << >>]

PortCall(ports, limit) ==
    /\ pscan.mpc \in {"idle", "done"}
    /\ pscan' = NewPortScan(ports, limit)
    /\ UNCHANGED exceptPscan

\* for &port in ports { job_tx.send(port).await }, then drop(job_tx); the
\* job receiver is alive in shared_rx, so the send never fails
PortFeed ==
    /\ pscan.mpc = "feed"
    /\ IF pscan.fi > Len(pscan.ports)
       THEN pscan' = [pscan EXCEPT !.mpc = "collect"]
       ELSE /\ Len(pscan.jobq) < job_cap(pscan.limit)
            /\ pscan' = [pscan EXCEPT
                    !.jobq = Append(@, pscan.ports[pscan.fi]),
                    !.fi = @ + 1]
    /\ UNCHANGED exceptPscan

\* while let Some(result) = result_rx.recv().await { results.push(result) }
PortCollect ==
    /\ pscan.mpc = "collect"
    /\ IF pscan.resultq # << >>
       THEN pscan' = [pscan EXCEPT !.results = Append(@, Head(pscan.resultq)),
                                   !.resultq = Tail(@)]
       ELSE /\ PortWorkersDone
            /\ pscan' = [pscan EXCEPT !.mpc = "join"]
    /\ UNCHANGED exceptPscan

\* scan_ports returning its results in the order they arrived
PortJoin_unsorted ==
    /\ pscan.mpc = "join"
    /\ PortWorkersDone
    /\ pscan' = [pscan EXCEPT !.mpc = "done", !.ret = pscan.results]
    /\ UNCHANGED exceptPscan

\* for worker in workers { worker.await }; results.sort_by_key(|r| r.port)
PortJoin ==
    /\ pscan.mpc = "join"
    /\ PortWorkersDone
    /\ pscan' = [pscan EXCEPT !.mpc = "done",
                              !.ret = sort_by_port(pscan.results)]
    /\ UNCHANGED exceptPscan

\* worker: rx.lock().await
PortWorkerLock(w) ==
    /\ pscan.wpc[w] = "lock"
    /\ pscan.lock = 0
    /\ pscan' = [pscan EXCEPT !.lock = w, !.wpc[w] = "recv"]
    /\ UNCHANGED exceptPscan

\* worker: guard.recv().await under the lock; None once job_tx is dropped
\* and the queue is empty
PortWorkerRecv(w) ==
    /\ pscan.wpc[w] = "recv"
    /\ IF pscan.jobq # << >>
       THEN pscan' = [pscan EXCEPT !.jobq = Tail(@), !.lock = 0,
                                   !.wport[w] = Head(pscan.jobq),
                                   !.wpc[w] = "acquire"]
       ELSE /\ pscan.mpc # "feed"
            /\ pscan' = [pscan EXCEPT !.lock = 0, !.wpc[w] = "done"]
    /\ UNCHANGED exceptPscan

\* scan_port: self.semaphore.acquire().await
PortAcquire(w) ==
    /\ pscan.wpc[w] = "acquire"
    /\ pscan.permits > 0
    /\ pscan' = [pscan EXCEPT !.permits = @ - 1, !.wpc[w] = "connect"]
    /\ UNCHANGED exceptPscan

\* scan_port: the connect under timeout() ends (wconn is what it ended
\* with) and the permit is returned
PortConnect(w, outcome) ==
    /\ pscan.wpc[w] = "connect"
    /\ pscan' = [pscan EXCEPT !.permits = @ + 1,
                              !.wconn[w] = outcome,
                              !.wopen[w] = is_open(outcome),
                              !.wpc[w] = "send"]
    /\ UNCHANGED exceptPscan

\* worker: tx.send(result).await; the receiver lives until scan_ports
\* returns, so the send never fails
PortWorkerSend(w) ==
    /\ pscan.wpc[w] = "send"
    /\ Len(pscan.resultq) < result_cap(pscan.ports)
    /\ pscan' = [pscan EXCEPT
            !.resultq = Append(@, [port |-> pscan.wport[w],
                                   is_open |-> pscan.wopen[w]]),
            !.wport[w] = 0, !.wconn[w] = "None", !.wopen[w] = FALSE,
            !.wpc[w] = "lock"]
    /\ UNCHANGED exceptPscan

(* ----------------------- DnsResolver (dns.rs) --------------------------- *)
\* the addresses resolved
DnsIps == {1, 2}
\* what lookup_addr in spawn_blocking ends with, as resolve's Option<String>
LookupOutcomes == {"None", "host"}

\* a resolve call that was not made yet
NoCall == [pc |-> "idle", ip |-> 1, result |-> "", after |-> {}]

\* DnsResolver::new(concurrent_limit).  cache[ip] is "absent" when the map
\* has no entry for ip; returned[ip] is the set of values that the resolve
\* calls of ip completed since the last clear_cache have returned, and the
\* after of a call is what returned[ip] was when the call started; lock is
\* the call that holds the cache Mutex, None when it is free
NewDns(limit) ==
    [limit |-> limit, permits |-> limit, lock |-> None,
     cache |-> [ip \in DnsIps |-> "absent"],
     returned |-> [ip \in DnsIps |-> {}],
     calls |-> [c \in 1..MaxCalls |-> NoCall]]

\* resolve(ip) is called
DnsResolve(c, ip) ==
    /\ dns.calls[c].pc \in {"idle", "done"}
    /\ dns' = [dns EXCEPT !.calls[c] =
                  [pc |-> "check", ip |-> ip, result |-> "",
                   after |-> dns.returned[ip]]]
    /\ UNCHANGED exceptDns

\* resolve: self.cache.lock().await, before the look and before the insert
DnsLock(c) ==
    /\ dns.calls[c].pc \in {"check", "store"}
    /\ dns.lock = None
    /\ dns' = [dns EXCEPT !.lock = c]
    /\ UNCHANGED exceptDns

\* resolve: if let Some(cached) = cache.get(&ip) { return cached.clone() };
\* the guard is dropped at the end of the block
DnsCheck(c) ==
    /\ dns.calls[c].pc = "check"
    /\ dns.lock = c
    /\ LET ip == dns.calls[c].ip IN
       IF dns.cache[ip] # "absent"
       THEN dns' = [dns EXCEPT !.lock = None,
                               !.calls[c].pc = "done",
                               !.calls[c].result = dns.cache[ip],
                               !.returned[ip] = @ \cup {dns.cache[ip]}]
       ELSE dns' = [dns EXCEPT !.lock = None, !.calls[c].pc = "acquire"]
    /\ UNCHANGED exceptDns

\* DnsAcquire that does not wait for a permit
DnsAcquire_nowait(c) ==
    /\ dns.calls[c].pc = "acquire"
    /\ dns' = [dns EXCEPT !.permits = @ - 1, !.calls[c].pc = "lookup"]
    /\ UNCHANGED exceptDns

\* resolve: self.semaphore.acquire().await.unwrap()
DnsAcquire(c) ==
    /\ dns.calls[c].pc = "acquire"
    /\ dns.permits > 0
    /\ dns' = [dns EXCEPT !.permits = @ - 1, !.calls[c].pc = "lookup"]
    /\ UNCHANGED exceptDns

\* resolve: spawn_blocking(lookup_addr(..).ok()).await.ok().flatten()
DnsLookup(c, outcome) ==
    /\ dns.calls[c].pc = "lookup"
    /\ dns' = [dns EXCEPT !.calls[c].pc = "store",
                          !.calls[c].result = outcome]
    /\ UNCHANGED exceptDns

\* resolve: cache.insert(ip, result.clone()); the guard is dropped, the
\* result is returned and the permit dropped
DnsStore(c) ==
    /\ dns.calls[c].pc = "store"
    /\ dns.lock = c
    /\ LET ip == dns.calls[c].ip
           result == dns.calls[c].result
       IN dns' = [dns EXCEPT !.cache[ip] = result,
                             !.lock = None,
                             !.permits = @ + 1,
                             !.calls[c].pc = "done",
                             !.returned[ip] = @ \cup {result}]
    /\ UNCHANGED exceptDns

\* clear_cache: cache.lock().await; cache.clear()
DnsClear ==
    /\ dns.lock = None
    /\ dns' = [dns EXCEPT
                 !.cache = [ip \in DnsIps |-> "absent"],
                 !.returned = [ip \in DnsIps |-> {}],
                 !.calls = [c \in 1..MaxCalls |->
                              [dns.calls[c] EXCEPT !.after = {}]]]
    /\ UNCHANGED exceptDns

(* ------------------- the typed range specification -------------------- *)
\* u32::to_string
RECURSIVE to_string(_)
to_string(n) ==
    IF n < 10 THEN <<Digits[n + 1]>>
    ELSE to_string(n \div 10) \o <<Digits[(n % 10) + 1]>>

\* 10.0.0.0 as a u32; an address is written by its offset from it
Base == 167772160
addr_text(offset) ==
    <<"1", "0", ".", "0", ".">> \o to_string(offset \div 256) \o <<".">>
        \o to_string(offset % 256)

Spaces(n) == [i \in 1..n |-> " "]

\* texts that are no address, no CIDR and no range
BadTexts == <<
    <<"1", "0", ".", "0", ".", "0", ".", "0", "5">>,
    <<"1", "0", ".", "0", ".", "0", ".", "4", "/">>,
    <<"1", "0", ".", "0", ".", "0", ".", "4", "/", "3", "0", "-", "5">>,
    <<"1", "0", ".", "0", ".", "0", ".", "5", "-">>,
    <<"1", "0", ".", "0", ".", "0", ".", "5", "-", "6", "-", "7">> >>

\* the tokens a user types: a single address, a CIDR a/b, a range with a
\* bare final octet a-b, a range of two addresses a-b, blanks, a bad text;
\* pad spaces surround the token and its dash
Token(kind, a, b, pad) == [kind |-> kind, a |-> a, b |-> b, pad |-> pad]
Tokens ==
    {Token("single", 5, 0, 0)}
    \cup {Token("cidr", 5, 30, 0), Token("cidr", 6, 31, 0),
          Token("cidr", 9, 32, 0), Token("cidr", 4, 30, 1),
          Token("cidr", 0, 33, 0)}
    \cup {Token("short", 5, 7, 1), Token("short", 5, 5, 0),
          Token("short", 7, 5, 0), Token("short", 5, 256, 0),
          Token("short", 300, 46, 0)}
    \cup {Token("full", 7, 5, 0), Token("full", 254, 257, 0),
          Token("full", 5, 6, 1)}
    \cup {Token("blank", 0, 0, 0), Token("blank", 0, 0, 1)}
    \cup {Token("bad", i, 0, 0) : i \in DOMAIN BadTexts}

token_text(tok) ==
    LET body ==
            CASE tok.kind = "single" -> addr_text(tok.a)
              [] tok.kind = "cidr" ->
                    addr_text(tok.a) \o <<"/">> \o to_string(tok.b)
              [] tok.kind = "short" ->
                    addr_text(tok.a) \o Spaces(tok.pad) \o <<"-">>
                        \o Spaces(tok.pad) \o to_string(tok.b)
              [] tok.kind = "full" ->
                    addr_text(tok.a) \o Spaces(tok.pad) \o <<"-">>
                        \o Spaces(tok.pad) \o addr_text(tok.b)
              [] tok.kind = "blank" -> << >>
              [] tok.kind = "bad" -> BadTexts[tok.a]
    IN Spaces(tok.pad) \o body \o Spaces(tok.pad)

\* the tokens joined by commas
RECURSIVE spec_text(_)
spec_text(toks) ==
    IF toks = << >> THEN << >>
    ELSE IF Len(toks) = 1 THEN token_text(toks[1])
    ELSE token_text(toks[1]) \o <<",">> \o spec_text(Tail(toks))

ParseInputs ==
    UNION {[1..n -> Tokens] : n \in 0..MaxTokens}

(* --------------- App::scan_ports_for_selected (app.rs) ----------------- *)
\* COMMON_PORTS: ascending and without repeats; three of its ports stand for
\* the list
CommonPorts == <<22, 80, 443>>

\* a HostInfo with its port fields
PortHost(ip, is_alive, open_ports, ports_scanned) ==
    [ip |-> ip, is_alive |-> is_alive, open_ports |-> open_ports,
     ports_scanned |-> ports_scanned]

\* the sessions scan_ports_for_selected is called in: before any scan;
\* scanning with hosts in arrival order, a live and a dead one selected;
\* paused; completed, the selected host with ports of an earlier port scan
PortSessions ==
    {[scan_state |-> "Idle", hosts |-> << >>, table_selected |-> None,
      scan_total |-> 0, scan_completed |-> 0, scan_cancel_tx |-> "None"],
     [scan_state |-> "Scanning",
      hosts |-> <<PortHost(2, TRUE, << >>, FALSE),
                  PortHost(1, FALSE, << >>, FALSE)>>,
      table_selected |-> 1,
      scan_total |-> 3, scan_completed |-> 2, scan_cancel_tx |-> "Some"],
     [scan_state |-> "Scanning",
      hosts |-> <<PortHost(2, TRUE, << >>, FALSE),
                  PortHost(1, FALSE, << >>, FALSE)>>,
      table_selected |-> 2,
      scan_total |-> 3, scan_completed |-> 2, scan_cancel_tx |-> "Some"],
     [scan_state |-> "Paused",
      hosts |-> <<PortHost(2, TRUE, << >>, FALSE)>>,
      table_selected |-> 1,
      scan_total |-> 2, scan_completed |-> 1, scan_cancel_tx |-> "Some"],
     [scan_state |-> "Completed",
      hosts |-> <<PortHost(1, TRUE, << >>, FALSE),
                  PortHost(2, TRUE, <<80>>, TRUE)>>,
      table_selected |-> 2,
      scan_total |-> 2, scan_completed |-> 2, scan_cancel_tx |-> "None"]}

\* App::selected_host / selected_host_mut with FilterMode::All: the index in
\* hosts of the selected row, None when there is none
selected_host ==
    IF table_selected = None \/ table_selected > Len(hosts) THEN None
    ELSE table_selected

\* results.into_iter().filter(|r| r.is_open).map(|r| r.port).collect()
open_ports(results) ==
    LET open == SelectSeq(results, LAMBDA r : r.is_open)
    IN [i \in DOMAIN open |-> open[i].port]

\* scan_ports_for_selected up to scanner.scan_ports(ip, COMMON_PORTS): it
\* returns at once without a selected host and for a host that is not alive
ScanPortsCall(limit) ==
    /\ pscan.mpc = "idle"
    /\ command' = "ScanPorts"
    /\ IF selected_host # None /\ hosts[selected_host].is_alive
       THEN pscan' = NewPortScan(CommonPorts, limit)
       ELSE UNCHANGED pscan
    /\ UNCHANGED <<appVars, scan_rx, run, cacheVars, probe, dns, parsing,
                   detached, enrich,
                   earlier>>

\* ScanPortsApply storing every scanned port
ScanPortsApply_all ==
    /\ command = "ScanPorts"
    /\ pscan.mpc = "done"
    /\ hosts' = IF selected_host # None
                THEN [hosts EXCEPT ![selected_host].open_ports =
                        [i \in DOMAIN pscan.ret |-> pscan.ret[i].port]]
                ELSE hosts
    /\ pscan' = NoPortScan
    /\ UNCHANGED <<scan_state, table_selected, scan_total, scan_completed,
                   scan_cancel_tx, range_input, input_mode, export_message,
                   concurrent_limit, scan_rx, command, run, cacheVars, probe,
                   dns, parsing, detached, enrich,
                   earlier>>

\* scan_ports_for_selected after scan_ports has returned: the open ports go
\* to the selected host, the scanner and its results are dropped
ScanPortsApply ==
    /\ command = "ScanPorts"
    /\ pscan.mpc = "done"
    /\ hosts' = IF selected_host # None
                THEN [hosts EXCEPT ![selected_host].open_ports =
                                        open_ports(pscan.ret)]
                ELSE hosts
    /\ pscan' = NoPortScan
    /\ UNCHANGED <<scan_state, table_selected, scan_total, scan_completed,
                   scan_cancel_tx, range_input, input_mode, export_message,
                   concurrent_limit, scan_rx, command, run, cacheVars, probe,
                   dns, parsing, detached, enrich,
                   earlier>>

(* ------ one pass of the consumer loop over a ping result (app.rs) ------ *)
\* what get_mac_address returns
MacOutcomes == {"None", "mac"}

\* no pass is followed.  dns and arp are what the lookups returned,
\* "untried" without a lookup; sent is the events handed to event_tx.send
NoEnrich ==
    [pc |-> "idle", ip |-> 1, is_alive |-> FALSE,
     resolve_hostnames |-> FALSE, detect_mac |-> FALSE, rx_live |-> TRUE,
     dns |-> "untried", arp |-> "untried",
     hostname |-> "None", mac |-> "None", sent |-> << >>]

\* result = ping_rx.recv() => Some(ping_result): host = ping_result.into(),
\* with hostname and mac None; rx_live is whether run_app still holds the
\* receiver of the event channel
EnrichRecv(ip, alive, resolve, detect, live) ==
    /\ enrich.pc \in {"idle", "done"}
    /\ enrich' = [NoEnrich EXCEPT !.pc = "dns", !.ip = ip,
                                  !.is_alive = alive,
                                  !.resolve_hostnames = resolve,
                                  !.detect_mac = detect, !.rx_live = live]
    /\ UNCHANGED exceptEnrich

\* the hostname looked up for every host, alive or not
EnrichDns_always(outcome) ==
    /\ enrich.pc = "dns"
    /\ enrich' = IF enrich.resolve_hostnames
                 THEN [enrich EXCEPT !.pc = "mac", !.dns = outcome,
                                     !.hostname = outcome]
                 ELSE [enrich EXCEPT !.pc = "mac"]
    /\ UNCHANGED exceptEnrich

\* if host.is_alive && config.resolve_hostnames { if let Some(hostname) =
\* dns_resolver.resolve(host.ip).await { host.hostname = Some(hostname) } }
EnrichDns(outcome) ==
    /\ enrich.pc = "dns"
    /\ enrich' = IF enrich.is_alive /\ enrich.resolve_hostnames
                 THEN [enrich EXCEPT !.pc = "mac", !.dns = outcome,
                                     !.hostname = outcome]
                 ELSE [enrich EXCEPT !.pc = "mac"]
    /\ UNCHANGED exceptEnrich

\* if host.is_alive && config.detect_mac { if let Some(mac) =
\* get_mac_address(host.ip) { host.mac = Some(mac) } }
EnrichMac(outcome) ==
    /\ enrich.pc = "mac"
    /\ enrich' = IF enrich.is_alive /\ enrich.detect_mac
                 THEN [enrich EXCEPT !.pc = "send", !.arp = outcome,
                                     !.mac = outcome]
                 ELSE [enrich EXCEPT !.pc = "send"]
    /\ UNCHANGED exceptEnrich

\* let _ = event_tx.send(ScanEvent::HostDiscovered(host)).await: the event
\* goes into the channel, or is dropped with the error when the receiver is
\* gone; the loop goes on to its next select!
EnrichSend ==
    /\ enrich.pc = "send"
    /\ enrich' = [enrich EXCEPT
                    !.pc = "done",
                    !.sent = Append(@, [type |-> "HostDiscovered",
                                        ip |-> enrich.ip,
                                        is_alive |-> enrich.is_alive,
                                        hostname |-> enrich.hostname,
                                        mac |-> enrich.mac,
                                        delivered |-> enrich.rx_live])]
    /\ UNCHANGED exceptEnrich

(* --------------------- one IpRange::parse call (range.rs) -------------- *)
NoParse == [pc |-> "idle", toks |-> << >>, text |-> << >>, range |-> ParseError]

\* the caller passes the text
ParseCall(toks) ==
    /\ parsing.pc = "idle"
    /\ parsing' = [pc |-> "called", toks |-> toks, text |-> spec_text(toks),
                   range |-> ParseError]
    /\ UNCHANGED exceptParsing

\* parse returns
ParseReturn ==
    /\ parsing.pc = "called"
    /\ parsing' = [parsing EXCEPT !.pc = "returned", !.range = parse(parsing.text)]
    /\ UNCHANGED exceptParsing

\* no call of the scanner modules is followed
EngineQuiet ==
    /\ probe = NoProbe
    /\ pscan = NoPortScan
    /\ dns = NewDns(ConfigLimit)
    /\ parsing = NoParse
    /\ detached = 0
    /\ enrich = NoEnrich
    /\ earlier = NoEarlier

(* ---------------------------- specifications --------------------------- *)
\* App::new, before run_app's first iteration
Init ==
    /\ scan_state = "Idle"
    /\ hosts = << >>
    /\ table_selected = None
    /\ scan_total = 0
    /\ scan_completed = 0
    /\ scan_cancel_tx = "None"
    /\ range_input \in RangeInputs
    /\ input_mode = "Normal"
    /\ export_message = "None"
    /\ concurrent_limit = ConfigLimit
    /\ scan_rx = "None"
    /\ command = "None"
    /\ run = NoRun
    /\ CacheQuiet
    /\ EngineQuiet

TaskStep ==
    \/ Feed
    \/ Join
    \/ \E w \in Workers :
          \/ WorkerLock(w)
          \/ WorkerRecv(w)
          \/ PingAcquire(w)
          \/ PingReturn(w)
          \/ WorkerSend(w)
    \/ ConsumerCancel
    \/ ConsumerRecv
    \/ ConsumerSendHost
    \/ ConsumerSendComplete

MainStep ==
    \/ MainRecvEvent
    \/ KeyStartScan
    \/ KeyPause
    \/ KeyResume
    \/ KeyEditRange
    \/ \E input \in RangeInputs : KeyEditType(input)
    \/ KeyEditCancel
    \/ KeyEditSelect

Next == TaskStep \/ MainStep

\* the scan session: App driven by run_app
Spec == Init /\ [][Next]_vars

\* one scan run, from the state in which a successful start_scan leaves a
\* fresh App, for every concurrency limit and every address list
SchedInit ==
    \E input \in SchedInputs, limit \in 0..MaxLimit :
        LET res == start_scan([scan_state |-> "Idle", hosts |-> << >>,
                               table_selected |-> None, scan_total |-> 0,
                               scan_completed |-> 0,
                               scan_cancel_tx |-> "None",
                               range_input |-> input])
        IN /\ scan_state = res.app.scan_state
           /\ hosts = res.app.hosts
           /\ table_selected = res.app.table_selected
           /\ scan_total = res.app.scan_total
           /\ scan_completed = res.app.scan_completed
           /\ scan_cancel_tx = res.app.scan_cancel_tx
           /\ range_input = input
           /\ input_mode = "Normal"
           /\ export_message = "None"
           /\ concurrent_limit = limit
           /\ scan_rx = "Some"
           /\ command = "StartScan"
           /\ run = NewRun(res.addresses, limit)
           /\ CacheQuiet
    /\ EngineQuiet

SchedNext == TaskStep \/ MainRecvEvent \/ KeyPause

SchedSpec == SchedInit /\ [][SchedNext]_vars

\* the result cache: save_cache and load_cache calls of one process after
\* another on one cache file, which may be missing or malformed at first
CacheInit ==
    /\ scan_state = "Idle"
    /\ hosts = << >>
    /\ table_selected = None
    /\ scan_total = 0
    /\ scan_completed = 0
    /\ scan_cancel_tx = "None"
    /\ range_input = << >>
    /\ input_mode = "Normal"
    /\ export_message = "None"
    /\ concurrent_limit = ConfigLimit
    /\ scan_rx = "None"
    /\ command = "None"
    /\ run = NoRun
    /\ disk_cache \in {Absent, Malformed}
    /\ disk_tmp = Absent
    /\ save = NoSave
    /\ loaded = NoLoad
    /\ now = 0
    /\ EngineQuiet

CacheNext ==
    \/ \E range \in CacheKeys, hs \in HostLists : SaveBegin(range, hs)
    \/ SaveRead
    \/ SaveWriteCreate
    \/ SaveWriteFill
    \/ SaveRemove
    \/ SaveRename
    \/ SaveCopyCreate
    \/ SaveCopyFill
    \/ SaveRemoveTmp
    \/ Crash
    \/ Restart
    \/ \E range \in CacheKeys : Load(range)
    \/ Tick

CacheSpec == CacheInit /\ [][CacheNext]_vars

\* an idle session and an untouched cache
SessionQuiet ==
    /\ scan_state = "Idle"
    /\ hosts = << >>
    /\ table_selected = None
    /\ scan_total = 0
    /\ scan_completed = 0
    /\ scan_cancel_tx = "None"
    /\ range_input = << >>
    /\ input_mode = "Normal"
    /\ export_message = "None"
    /\ concurrent_limit = ConfigLimit
    /\ scan_rx = "None"
    /\ command = "None"
    /\ run = NoRun

\* Pinger::ping calls, one after another, for every availability of ICMP,
\* every retries up to MaxRetries and every outcome of every probe
ProbeInit ==
    /\ SessionQuiet
    /\ CacheQuiet
    /\ EngineQuiet

ProbeNext ==
    \/ \E icmp \in BOOLEAN, retries \in 0..MaxRetries :
          ProbeCall(icmp, retries)
    \/ ProbeAcquire
    \/ \E outcome \in IcmpOutcomes : ProbeIcmp(outcome)
    \/ \E outcome \in TcpOutcomes : ProbeTcp(outcome)

ProbeSpec == ProbeInit /\ [][ProbeNext]_vars

\* scan_ports calls, one after another, on scanners of every limit up to
\* MaxLimit
PortInit ==
    /\ SessionQuiet
    /\ CacheQuiet
    /\ EngineQuiet

PortNext ==
    \/ \E ports \in PortLists, limit \in 0..MaxLimit : PortCall(ports, limit)
    \/ PortFeed
    \/ PortCollect
    \/ PortJoin
    \/ \E w \in PortWorkers :
          \/ PortWorkerLock(w)
          \/ PortWorkerRecv(w)
          \/ PortAcquire(w)
          \/ \E outcome \in TcpOutcomes : PortConnect(w, outcome)
          \/ PortWorkerSend(w)

PortSpec == PortInit /\ [][PortNext]_vars

\* tokio runs every ready task and its Mutex is FIFO-fair; a call is not
\* obliged to be followed by another
PortFairness ==
    /\ WF_vars(PortFeed)
    /\ WF_vars(PortCollect)
    /\ WF_vars(PortJoin)
    /\ \A w \in 1..worker_count(MaxLimit) :
          /\ SF_vars(w \in PortWorkers /\ PortWorkerLock(w))
          /\ WF_vars(w \in PortWorkers /\ PortWorkerRecv(w))
          /\ WF_vars(w \in PortWorkers /\ PortAcquire(w))
          /\ WF_vars(w \in PortWorkers /\
                     \E outcome \in TcpOutcomes : PortConnect(w, outcome))
          /\ WF_vars(w \in PortWorkers /\ PortWorkerSend(w))

FairPortSpec == PortInit /\ [][PortNext]_vars /\ PortFairness

\* resolve calls, up to MaxCalls at a time, and clear_cache calls on one
\* resolver of any limit up to MaxLimit
DnsInit ==
    /\ SessionQuiet
    /\ CacheQuiet
    /\ probe = NoProbe
    /\ pscan = NoPortScan
    /\ dns \in {NewDns(limit) : limit \in 0..MaxLimit}
    /\ parsing = NoParse
    /\ detached = 0
    /\ enrich = NoEnrich
    /\ earlier = NoEarlier

DnsNext ==
    \/ \E c \in 1..MaxCalls :
          \/ \E ip \in DnsIps : DnsResolve(c, ip)
          \/ DnsLock(c)
          \/ DnsCheck(c)
          \/ DnsAcquire(c)
          \/ \E outcome \in LookupOutcomes : DnsLookup(c, outcome)
          \/ DnsStore(c)
    \/ DnsClear

DnsSpec == DnsInit /\ [][DnsNext]_vars

\* one IpRange::parse call on every specification of up to MaxTokens tokens
ParseInit ==
    /\ SessionQuiet
    /\ CacheQuiet
    /\ EngineQuiet

ParseNext ==
    \/ \E toks \in ParseInputs : ParseCall(toks)
    \/ ParseReturn

ParseSpec == ParseInit /\ [][ParseNext]_vars

\* the scan session with the probes of replaced runs followed
RestartNext ==
    \/ TaskStep
    \/ MainRecvEvent
    \/ KeyPause
    \/ StartScanReplacing
    \/ ResumeReplacing
    \/ DetachedReturn

RestartSpec == Init /\ [][RestartNext]_vars

\* scan_ports_for_selected calls, one after another, in a session of
\* PortSessions, on scanners of every limit up to MaxLimit
SelectedInit ==
    /\ \E a \in PortSessions :
          /\ scan_state = a.scan_state
          /\ hosts = a.hosts
          /\ table_selected = a.table_selected
          /\ scan_total = a.scan_total
          /\ scan_completed = a.scan_completed
          /\ scan_cancel_tx = a.scan_cancel_tx
          /\ scan_rx = IF a.scan_state = "Idle" THEN "None" ELSE "Some"
    /\ range_input = <<<<1, 2>>>>
    /\ input_mode = "Normal"
    /\ export_message = "None"
    /\ concurrent_limit = ConfigLimit
    /\ command = "None"
    /\ run = NoRun
    /\ CacheQuiet
    /\ EngineQuiet

SelectedNext ==
    \/ \E limit \in 0..MaxLimit : ScanPortsCall(limit)
    \/ ScanPortsApply
    \/ PortFeed
    \/ PortCollect
    \/ PortJoin
    \/ \E w \in PortWorkers :
          \/ PortWorkerLock(w)
          \/ PortWorkerRecv(w)
          \/ PortAcquire(w)
          \/ \E outcome \in TcpOutcomes : PortConnect(w, outcome)
          \/ PortWorkerSend(w)

SelectedSpec == SelectedInit /\ [][SelectedNext]_vars

EnrichInit ==
    /\ SessionQuiet
    /\ CacheQuiet
    /\ EngineQuiet

EnrichNext ==
    \/ \E ip \in DnsIps, alive, resolve, detect, live \in BOOLEAN :
          EnrichRecv(ip, alive, resolve, detect, live)
    \/ \E outcome \in LookupOutcomes : EnrichDns(outcome)
    \/ \E outcome \in MacOutcomes : EnrichMac(outcome)
    \/ EnrichSend

\* passes of the consumer loop, one after the other
EnrichSpec == EnrichInit /\ [][EnrichNext]_vars

\* the session, with the consumer task of the run replaced last
FollowNext ==
    \/ TaskStep
    \/ MainRecvEvent
    \/ KeyPause
    \/ StartScanFollowing
    \/ ResumeFollowing
    \/ EarlierWorkerSend
    \/ EarlierCancel
    \/ EarlierRecv
    \/ EarlierSendHost
    \/ EarlierSendComplete

\* tokio runs every ready task, and select! picks a ready branch at random
EarlierFairness ==
    /\ WF_vars(EarlierWorkerSend)
    /\ SF_vars(EarlierCancel)
    /\ WF_vars(EarlierSendHost)
    /\ WF_vars(EarlierSendComplete)

FairFollowSpec == Init /\ [][FollowNext]_vars /\ EarlierFairness

\* the session with pause_scan and resume_scan called in every state
MethodNext == Next \/ PauseCall \/ ResumeCall

MethodSpec == Init /\ [][MethodNext]_vars

\* tokio runs every ready task; its Mutex is FIFO-fair; select! picks a ready
\* branch at random, so a branch that is ready again and again is taken
Fairness ==
    /\ WF_vars(Feed)
    /\ WF_vars(Join)
    /\ \A w \in 1..worker_count(MaxLimit) :
          /\ SF_vars(w \in Workers /\ WorkerLock(w))
          /\ WF_vars(w \in Workers /\ WorkerRecv(w))
          /\ WF_vars(w \in Workers /\ PingAcquire(w))
          /\ WF_vars(w \in Workers /\ PingReturn(w))
          /\ WF_vars(w \in Workers /\ WorkerSend(w))
    /\ SF_vars(ConsumerCancel)
    /\ SF_vars(ConsumerRecv)
    /\ WF_vars(ConsumerSendHost)
    /\ WF_vars(ConsumerSendComplete)
    /\ WF_vars(MainRecvEvent)

\* one scan run under fair scheduling of its tasks and of run_app's loop
FairSchedSpec == SchedInit /\ [][SchedNext]_vars /\ Fairness

\* the session under fair scheduling of the tasks and of run_app's loop;
\* the user is not obliged to press anything
FairSessionSpec == Init /\ [][Next]_vars /\ Fairness

(* ------------------------------- claims -------------------------------- *)
Count(s, x) == Cardinality({i \in DOMAIN s : s[i] = x})
AllDelivered ==
    \A ip \in DOMAIN run.delivered :
        run.delivered[ip] = Count(run.addresses, ip)

\* C1: for every concurrent_limit >= 1 and every address list, scan_hosts puts
\* at most one result per list position on the results channel (the delivered
\* addresses never exceed the input as a multiset), and when the consumer is
\* still receiving, the channel closes only after exactly one result for every
\* position has been delivered and received.
C1_OneResultPerAddress ==
    run.limit >= 1 =>
       /\ \A ip \in DOMAIN run.delivered :
             run.delivered[ip] <= Count(run.addresses, ip)
       /\ (~PingTxLive /\ PingRxLive) => AllDelivered
       /\ run.cpc = "send_complete" => (AllDelivered /\ run.pingq = << >>)

\* C1 witness: the consumer has seen the channel close after a run over a
\* list that repeats an address
C1_Witness ==
    /\ run.limit >= 1
    /\ run.cpc = "send_complete"
    /\ \E ip \in DOMAIN run.delivered : run.delivered[ip] = 2

\* C7: the number of ping calls holding a permit never exceeds
\* concurrent_limit; a call holds one permit exactly while it probes, and the
\* permits not held by a probing call are all available.
Probing == {w \in Workers : run.wpc[w] = "probe"}
C7_PermitsBounded ==
    /\ Cardinality(Probing) <= run.limit
    /\ run.permits = run.limit - Cardinality(Probing)

\* C7 witness: two calls hold the last two permits at the same time
C7_Witness ==
    /\ Cardinality(Probing) >= 2
    /\ run.permits = 0

\* a step of run_app that is a successful start_scan
StartStep ==
    /\ command' \in {"StartScan", "ResumeScan"}
    /\ export_message' = "None"
    /\ IpRange_parse(range_input).ok
    /\ scan_rx' = "Some"
    /\ run' = NewRun(IpRange_parse(range_input).addresses, concurrent_limit)

AllowedTransitions ==
    { <<"Idle", "Scanning">>, <<"Scanning", "Paused">>,
      <<"Paused", "Scanning">>, <<"Scanning", "Completed">>,
      <<"Completed", "Scanning">> }

\* C2: every change of scan_state is Idle->Scanning, Scanning->Paused,
\* Paused->Scanning, Scanning->Completed or Completed->Scanning; Idle and
\* Completed reach Scanning only by a successful start request.
C2_Transitions ==
    [][scan_state' # scan_state =>
          /\ <<scan_state, scan_state'>> \in AllowedTransitions
          /\ scan_state \in {"Idle", "Completed"} =>
                (StartStep /\ command' = "StartScan")]_vars

\* C2 witness: the completion event of a run has been handled while the
\* session was Paused, and the session is still Paused
C2_Witness ==
    /\ scan_state = "Paused"
    /\ scan_cancel_tx = "None"
    /\ hosts # << >>

\* C3 (as claimed): while the session stays Paused no host is added and the
\* completed counter does not change.
C3_NoDiscoveryWhilePaused ==
    [][(scan_state = "Paused" /\ scan_state' = "Paused") =>
          (Len(hosts') = Len(hosts) /\ scan_completed' = scan_completed)]_vars

\* C4 (as claimed): a resume from Paused moves to Scanning, resets completed
\* to 0 and restarts the feeding of the address list of the original start,
\* with total unchanged.
C4_ResumeRestartsOriginalList ==
    [][(scan_state = "Paused" /\ command' = "ResumeScan") =>
          /\ scan_state' = "Scanning"
          /\ scan_completed' = 0
          /\ scan_total' = scan_total
          /\ run'.addresses = run.addresses
          /\ run'.fpc = "feed" /\ run'.fi = 1]_vars

\* C5: completed <= total in every reachable state; total changes, and
\* completed decreases, only in a step that is a successful start.
C5_CompletedWithinTotal ==
    /\ [](scan_completed <= scan_total)
    /\ [][(scan_total' # scan_total \/ scan_completed' < scan_completed)
             => StartStep]_vars

\* C5 witness: every address of a three-address run has been counted, the
\* last of them after the pause
C5_Witness ==
    /\ command = "None"
    /\ scan_state = "Paused"
    /\ scan_total = 3
    /\ scan_completed = scan_total

\* C6: a start request whose range fails to parse changes nothing: scan
\* state, host list, selection, total, completed, cancel handle, event
\* receiver and the tasks and channels of the run are as before.
C6_FailedStartChangesNothing ==
    [][(command' = "StartScan" /\ export_message = "None"
            /\ export_message' = "Error") =>
          UNCHANGED <<scan_state, hosts, table_selected, scan_total,
                      scan_completed, scan_cancel_tx, scan_rx, run>>]_vars

\* C6 witness: a start has failed in a session that holds hosts of a
\* paused run
C6_Witness ==
    /\ command = "StartScan"
    /\ export_message = "Error"
    /\ scan_state = "Paused"
    /\ hosts # << >>
    /\ run.fpc # "done"

\* C8 (as claimed): once the receiver of the results channel has been
\* dropped, every worker eventually exits.
C8_WorkersExitAfterReceiverDrop ==
    [](~PingRxLive => <>AllWorkersDone)

\* C9 (as claimed, for limits that let probes run): after pause the consumer
\* loop, every worker and scan_hosts itself eventually finish.
C9_PauseTerminatesScan ==
    []((scan_state = "Paused" /\ run.limit >= 1) =>
          <>(run.cpc = "done" /\ AllWorkersDone /\ run.fpc = "done"))

\* C10 (as claimed): when the process stops at any step of a save over an
\* existing document, the cache file holds the complete previous document or
\* the complete new one.
C10_CrashSafeSave ==
    (save.pc = "crashed" /\ save.old.kind = "doc") =>
        (disk_cache = save.old \/ disk_cache = save.json)

\* a save_cache call with hosts returns
SaveDone == save.pc \notin {"idle", "crashed"} /\ save'.pc = "idle"

\* C11: a save_cache(range, hosts) call with non-empty hosts changes only the
\* entry of range: for every other key present in the well-formed cache file
\* the call found, load_cache returns after the call what it returned before
C11_SavePreservesOtherKeys ==
    [][(SaveDone /\ save.old.kind = "doc") =>
         \A K \in CacheKeys \ {save.range} :
            save.old.map[K].present =>
               load_cache(disk_cache', K) = load_cache(save.old, K)]_vars

\* host i of what load_cache returns equals host i given to save_cache
SameHost(got, given) ==
    /\ got.ip = given.ip
    /\ got.is_alive = given.is_alive
    /\ got.open_ports = given.open_ports
    /\ got.method = given.method
    /\ got.status = given.status

\* C12: once a save_cache(K, hosts) call with non-empty hosts has put its
\* document in place (by the rename or by the fallback copy), load_cache(K)
\* returns as many records as hosts, in the same order, each equal to its
\* input in ip, is_alive, open_ports, method and status, with cached_at a
\* time of that call; so the most recent save of K is the one that is read
C12_RoundTrip ==
    [][(SaveDone /\ disk_cache' = save.json) =>
         LET got == load_cache(disk_cache', save.range) IN
         /\ Len(got) = Len(save.hosts)
         /\ \A i \in 1..Len(got) :
               /\ SameHost(got[i], save.hosts[i])
               /\ got[i].cached_at \in save.called_at..now]_vars

\* C12 witness: two hosts saved for key A after time 0 have been loaded back
\* from a file that also holds the entry saved for key B at time 0
C12_Witness ==
    /\ loaded.called
    /\ loaded.range = "A"
    /\ Len(loaded.hosts) = 2
    /\ loaded.hosts[1].cached_at > 0
    /\ loaded.hosts = load_cache(disk_cache, "A")
    /\ disk_cache.map["B"].present
    /\ disk_cache.map["B"].scanned_at = 0

\* C13: a load_cache call returns the empty list, and nothing else, when the
\* cache file is missing or unreadable, is not a JSON document of the cache,
\* or has no entry for the key
C13_LoadNeverFails ==
    [][(loaded' # loaded /\ loaded'.called) =>
         ((disk_cache.kind # "doc" \/ ~disk_cache.map[loaded'.range].present)
            => loaded'.hosts = << >>)]_vars

\* C13 witness: load_cache of key B has returned the empty list from a file
\* that holds an entry for key A only
C13_Witness ==
    /\ loaded.called
    /\ loaded.range = "B"
    /\ loaded.hosts = << >>
    /\ disk_cache.kind = "doc"
    /\ disk_cache.map["A"].present
    /\ ~disk_cache.map["B"].present

\* run_app hands the event at the head of the event channel to
\* handle_scan_event
HandleEvent(type) ==
    /\ command' = "None"
    /\ run.eventq # << >>
    /\ Head(run.eventq).type = type
    /\ run'.eventq = Tail(run.eventq)

\* C14: in every state where the session is Completed, scan_completed equals
\* scan_total; the completion event of a run is handled only once the
\* discovery event of every address of that run has been handled
C14_CompletedCountsAll ==
    /\ [](scan_state = "Completed" => scan_completed = scan_total)
    /\ [][HandleEvent("ScanComplete") =>
            (scan_completed = Len(run.addresses) /\ AllDelivered)]_vars

\* C14 witness: a run of three addresses has been completed
C14_Witness ==
    /\ scan_state = "Completed"
    /\ scan_total = 3
    /\ scan_completed = 3
    /\ run.cpc = "done"

\* the host list is ascending by IP
SortedByIp(hs) ==
    \A i \in 1..Len(hs), j \in 1..Len(hs) : i < j => hs[i].ip <= hs[j].ip

\* C15: a discovery event appends its host to the end of the list, the list
\* changes otherwise only when the completion event is handled or a scan
\* starts, and in every state where the session is Completed the list is
\* ascending by IP
C15_SortedAtCompletion ==
    /\ [](scan_state = "Completed" => SortedByIp(hosts))
    /\ [][HandleEvent("HostDiscovered") =>
            hosts' = Append(hosts, Head(run.eventq).host)]_vars
    /\ [][hosts' # hosts =>
            \/ HandleEvent("HostDiscovered")
            \/ HandleEvent("ScanComplete")
            \/ StartStep]_vars

\* C15 witness: the run over 10.0.0.2, 10.0.0.1, 10.0.0.2, whose results
\* arrive in that order, has been completed
C15_Witness ==
    /\ scan_state = "Completed"
    /\ Len(hosts) = 3
    /\ hosts[1].ip = 1
    /\ run.addresses = <<2, 1, 2>>

\* C16: handling the completion event leaves a Paused session Paused and
\* makes any other session Completed; in both cases the cancel handle is
\* dropped and the host list is put in ascending order of IP
C16_CompletionEvent ==
    [][HandleEvent("ScanComplete") =>
         /\ scan_state' = IF scan_state = "Paused" THEN "Paused"
                          ELSE "Completed"
         /\ scan_cancel_tx' = "None"
         /\ hosts' = sort_by_ip(hosts)
         /\ SortedByIp(hosts')
         /\ Len(hosts') = Len(hosts)]_vars

\* C16 witness: the completion event of the run over 10.0.0.2, 10.0.0.1,
\* 10.0.0.2 has been handled in a Paused session
C16_Witness ==
    /\ scan_state = "Paused"
    /\ scan_cancel_tx = "None"
    /\ Len(hosts) = 3
    /\ hosts[1].ip = 1
    /\ run.addresses = <<2, 1, 2>>
    /\ run.eventq = << >>

\* the probes of the ping call that were answered
IcmpReplied == <<"icmp", "reply">> \in probe.seen
TcpReplied ==
    <<"tcp", "connected">> \in probe.seen \/ <<"tcp", "refused">> \in probe.seen

\* C17: the status of a ping result is Online if ICMP replied, or if TCP
\* replied and there is no ICMP client; OnlineNoIcmp if TCP replied while
\* there is an ICMP client that got no reply; Offline otherwise, and then
\* the method is Icmp if there is an ICMP client and Tcp if not
C17_StatusClassification ==
    probe.pc = "done" =>
       /\ probe.result.status =
             IF IcmpReplied \/ (TcpReplied /\ ~probe.icmp_client)
             THEN "Online"
             ELSE IF TcpReplied THEN "OnlineNoIcmp"
             ELSE "Offline"
       /\ probe.result.status = "Offline" =>
             probe.result.method =
                IF probe.icmp_client THEN "Icmp" ELSE "Tcp"

\* C17 witness: a TCP probe was answered after every ICMP attempt of an
\* available client had failed, once by an error and once by a timeout
C17_Witness ==
    /\ probe.pc = "done"
    /\ probe.icmp_client
    /\ probe.result.status = "OnlineNoIcmp"
    /\ {<<"icmp", "error">>, <<"icmp", "timeout">>} \subseteq probe.seen

\* every candidate port was tried in every one of the retries + 1 passes
AllPortsTried ==
    Cardinality({i \in 1..Len(probe.attempts) : probe.attempts[i][1] = "tcp"})
       = (probe.retries + 1) * Len(TcpPorts)

\* C18: a ping call one of whose TCP connects was established or refused
\* reports is_alive = TRUE; a call with no ICMP reply whose TCP connects
\* timed out or failed otherwise on every candidate port in every pass
\* reports Offline with is_alive = FALSE
C18_RefusedIsAlive ==
    probe.pc = "done" =>
       /\ TcpReplied => probe.result.is_alive
       /\ (~IcmpReplied /\ ~TcpReplied) =>
             /\ AllPortsTried
             /\ probe.result.status = "Offline"
             /\ ~probe.result.is_alive

\* C18 witness: a refused connection on the last candidate port of the
\* second pass made the host alive
C18_Witness ==
    /\ probe.pc = "done"
    /\ probe.result.is_alive
    /\ <<"tcp", "refused">> \in probe.seen
    /\ <<"tcp", "connected">> \notin probe.seen
    /\ AllPortsTried
    /\ probe.retries = 1

\* the ports of a list of PortResults
PortsOf(rs) == [i \in DOMAIN rs |-> rs[i].port]
\* how many times port p is in the list ps
PortCount(ps, p) == Cardinality({i \in DOMAIN ps : ps[i] = p})

\* C19: for every port list, the empty one and one with a repeated port
\* included, and every concurrent_limit >= 1, scan_ports ends and returns one
\* PortResult for each requested port (a port requested twice has two), in
\* ascending order of port number
C19_ScanPortsSorted ==
    /\ [](pscan.mpc = "done" =>
            /\ Len(pscan.ret) = Len(pscan.ports)
            /\ \A p \in {80, 443, 22} :
                  PortCount(PortsOf(pscan.ret), p) = PortCount(pscan.ports, p)
            /\ \A i \in 1..Len(pscan.ret), j \in 1..Len(pscan.ret) :
                  i < j => pscan.ret[i].port <= pscan.ret[j].port)
    /\ ((pscan.mpc = "feed" /\ pscan.limit >= 1) ~> pscan.mpc = "done")

\* C19 witness: the scan of 80, 22, 80 by two workers has returned, its
\* results having arrived in another order than the one returned
C19_Witness ==
    /\ pscan.mpc = "done"
    /\ pscan.ports = <<80, 22, 80>>
    /\ pscan.limit = 2
    /\ PortsOf(pscan.ret) = <<22, 80, 80>>
    /\ PortsOf(pscan.results) = <<80, 80, 22>>

\* resolve call c returns in this step
DnsReturns(c) == dns.calls[c].pc # "done" /\ dns'.calls[c].pc = "done"

\* C20: a resolve(ip) that starts after a resolve(ip) has completed (and
\* with no clear_cache since) returns from its look in the cache, without a
\* lookup and without a permit, the value that the completed one returned
C20_ResolveMemoized ==
    [][\A c \in 1..MaxCalls :
         (DnsReturns(c) /\ dns.calls[c].after # {}) =>
            /\ dns.calls[c].pc = "check"
            /\ \A v \in dns.calls[c].after : dns'.calls[c].result = v]_vars

(* ---------------------------- C21 .. C23 ------------------------------- *)
\* the parse call has returned, and what was typed is the one token tok
Parsed(tok) == parsing.pc = "returned" /\ parsing.toks = <<tok>>

\* addresses is first, first + 1, ..., last
Consecutive(addresses, first, last) ==
    /\ Len(addresses) = last - first + 1
    /\ \A i \in DOMAIN addresses : addresses[i] = first + i - 1

\* C21: for a valid CIDR a.b.c.d/n parse returns every address of that
\* network, from the network address to the broadcast address (2^(32-n)
\* addresses), in strictly ascending order without duplicates; an invalid
\* CIDR text is a ParseError.
C21_CidrAddresses ==
    \A tok \in Tokens :
        /\ Parsed(tok) /\ tok.kind = "cidr" /\ tok.b <= 32 =>
              LET size == 2 ^ (32 - tok.b)
                  network == CHOOSE n \in (Base + tok.a - size + 1)..(Base + tok.a) :
                                 n % size = 0
              IN /\ parsing.range.ok
                 /\ Consecutive(parsing.range.addresses, network,
                                network + size - 1)
        /\ Parsed(tok) /\ tok.kind = "cidr" /\ tok.b > 32 => ~parsing.range.ok
        /\ Parsed(tok) /\ tok.kind = "bad" /\ contains(parsing.text, "/") =>
              ~parsing.range.ok

\* 10.0.0.5/30, typed with its host bits set, has given 10.0.0.4 .. 10.0.0.7
C21_Witness ==
    /\ Parsed(Token("cidr", 5, 30, 0))
    /\ parsing.range = [ok |-> TRUE,
                        addresses |-> <<Base + 4, Base + 5, Base + 6, Base + 7>>]

\* the end of the range a token of kind short or full names: the final
\* octet goes with the first three octets of the start
RangeEnd(tok) ==
    IF tok.kind = "short" THEN Base + tok.a - (tok.a % 256) + tok.b
    ELSE Base + tok.b

\* C22: a dash range with a full address on the left and a full address or
\* a bare final octet on the right gives exactly end - start + 1 addresses,
\* start .. end ascending; parse fails when start > end, when a side does
\* not parse, and on empty (trimmed) input.
C22_DashRange ==
    /\ \A tok \in Tokens :
          /\ Parsed(tok) /\ tok.kind \in {"short", "full"} =>
                IF (tok.kind = "short" => tok.b <= 255)
                        /\ Base + tok.a <= RangeEnd(tok)
                THEN /\ parsing.range.ok
                     /\ Consecutive(parsing.range.addresses, Base + tok.a,
                                    RangeEnd(tok))
                ELSE ~parsing.range.ok
          /\ Parsed(tok) /\ tok.kind = "bad"
                /\ contains(parsing.text, "-") /\ ~contains(parsing.text, "/")
                => ~parsing.range.ok
          /\ Parsed(tok) /\ tok.kind = "blank" => ~parsing.range.ok
    /\ parsing.pc = "returned" /\ parsing.toks = << >> => ~parsing.range.ok

\* " 10.0.0.5 - 7 " has given 10.0.0.5, 10.0.0.6, 10.0.0.7
C22_Witness ==
    /\ Parsed(Token("short", 5, 7, 1))
    /\ parsing.range = [ok |-> TRUE,
                        addresses |-> <<Base + 5, Base + 6, Base + 7>>]

\* what a token stands for
TokenValid(tok) ==
    CASE tok.kind = "single" -> TRUE
      [] tok.kind = "cidr" -> tok.b <= 32
      [] tok.kind = "short" -> tok.b <= 255 /\ Base + tok.a <= RangeEnd(tok)
      [] tok.kind = "full" -> Base + tok.a <= RangeEnd(tok)
      [] OTHER -> FALSE

TokenAddresses(tok) ==
    CASE tok.kind = "single" -> <<Base + tok.a>>
      [] tok.kind = "cidr" ->
            LET size == 2 ^ (32 - tok.b)
                network == CHOOSE n \in (Base + tok.a - size + 1)..(Base + tok.a) :
                               n % size = 0
            IN [i \in 1..size |-> network + i - 1]
      [] tok.kind \in {"short", "full"} ->
            [i \in 1..(RangeEnd(tok) - (Base + tok.a) + 1) |->
                Base + tok.a + i - 1]

RECURSIVE Concatenation(_)
Concatenation(toks) ==
    IF toks = << >> THEN << >>
    ELSE IF toks[1].kind = "blank" THEN Concatenation(Tail(toks))
    ELSE TokenAddresses(toks[1]) \o Concatenation(Tail(toks))

\* C23: for a comma-separated specification parse returns the concatenation,
\* in token order, of the address lists of its non-empty tokens, repeated
\* addresses kept; it fails when a non-empty token is invalid and when no
\* token yields an address.
C23_CommaList ==
    parsing.pc = "returned" /\ Len(parsing.toks) >= 2 =>
        LET toks == parsing.toks IN
        IF \E i \in DOMAIN toks :
              toks[i].kind # "blank" /\ ~TokenValid(toks[i])
        THEN ~parsing.range.ok
        ELSE IF \A i \in DOMAIN toks : toks[i].kind = "blank"
        THEN ~parsing.range.ok
        ELSE /\ parsing.range.ok
             /\ parsing.range.addresses = Concatenation(toks)

\* " 10.0.0.5 - 7 ,10.0.0.5" has given 10.0.0.5, .6, .7 and 10.0.0.5 again
C23_Witness ==
    /\ parsing.pc = "returned"
    /\ parsing.toks = <<Token("short", 5, 7, 1), Token("single", 5, 0, 0)>>
    /\ parsing.range = [ok |-> TRUE,
                        addresses |-> <<Base + 5, Base + 6, Base + 7, Base + 5>>]

(* -------------------------------- C24 ---------------------------------- *)
\* App::scan_resume_tx: None from App::new on, no method assigns it
scan_resume_tx == "None"

\* C24: in every reachable state where the session is Scanning or Paused it
\* holds one live cancel handle and one resume handle, those of the most
\* recently started run.
C24_OneLivePair ==
    scan_state \in {"Scanning", "Paused"} =>
        /\ CancelTxLive
        /\ run.cpc # "done"
        /\ scan_resume_tx = "Some"

(* -------------------------------- C25 ---------------------------------- *)
\* no two records of the list are for the same IP
OneRecordPerIp(list) ==
    \A i, j \in DOMAIN list : list[i].ip = list[j].ip => i = j

\* C25: handling a discovery event increments completed by exactly 1 and
\* appends a record for the IP or updates the one there is: the host list never
\* holds two records for one IP, also when the address list repeats an address.
C25_OneRecordPerIp ==
    [][HandleEvent("HostDiscovered") =>
          /\ scan_completed' = scan_completed + 1
          /\ OneRecordPerIp(hosts')]_vars

(* -------------------------------- C26 ---------------------------------- *)
\* C26: once the cancel signal is in the cancel channel, the consumer loop
\* takes no further probe result to forward: at its next select it leaves the
\* loop, and only the event it was already processing is still sent.
C26_CancelObservedAtNextSelect ==
    [][run.cancelq > 0 /\ run.cpc = "select" => run'.cpc # "send_host"]_vars

(* -------------------------------- C27 ---------------------------------- *)
\* C27: across any sequence of start, pause and resume the host-discovery
\* probes outstanding in the process, those of the current run and those of
\* the runs before it, never exceed the configured ping concurrency limit.
C27_ProbesWithinLimit == InFlight + detached <= concurrent_limit

(* -------------------------------- C28 ---------------------------------- *)
\* the ports of the list are strictly ascending
Ascending(ports) ==
    \A i, j \in DOMAIN ports : i < j => ports[i] < ports[j]

\* the ports the scan found open
FoundOpen ==
    {pscan.results[i].port :
        i \in {j \in DOMAIN pscan.results : pscan.results[j].is_open}}

LookingUp == {c \in 1..MaxCalls : dns.calls[c].pc = "lookup"}

\* C30: the reverse lookups outstanding on one resolver, over all its
\* concurrent resolve calls, never exceed its concurrency limit (each holds one
\* of the limit's permits), and no call holds the cache lock while its lookup
\* is outstanding.
C30_LookupsWithinLimit ==
    /\ Cardinality(LookingUp) <= dns.limit
    /\ dns.permits >= 0
    /\ dns.permits + Cardinality(LookingUp) <= dns.limit
    /\ \A c \in LookingUp : dns.lock # c

\* on a resolver of limit 1 the lookup of one call is outstanding, a second
\* call that missed the cache waits for the permit, and the cache lock is free
C30_Witness ==
    /\ dns.limit = 1
    /\ dns.calls[1].pc = "lookup"
    /\ dns.calls[2].pc = "acquire"
    /\ dns.permits = 0
    /\ dns.lock = None

(* -------------------------------- C29 ---------------------------------- *)
\* a save_cache call with an empty host list is made in this step
EmptySave ==
    /\ save.pc \in {"idle", "returned"}
    /\ save'.pc # "idle"
    /\ save'.hosts = << >>

\* C29: save_cache(range, hosts) with an empty host list is a no-op: it
\* returns at once, and the cache file with every entry in it, an entry for
\* range included, and the temporary file are as they were.
C29_EmptySaveNoOp ==
    [][EmptySave =>
          /\ save'.pc = "returned"
          /\ disk_cache' = disk_cache
          /\ disk_tmp' = disk_tmp
          /\ \A K \in CacheKeys :
                load_cache(disk_cache', K) = load_cache(disk_cache, K)]_vars

\* save_cache("A", empty) has returned, and the file holds the entry of an
\* earlier save for "A", with its hosts
C29_Witness ==
    /\ save.pc = "returned"
    /\ save.range = "A"
    /\ disk_cache.kind = "doc"
    /\ disk_cache.map["A"].present
    /\ disk_cache.map["A"].hosts # << >>

(* -------------------------------- C32 ---------------------------------- *)
\* the ICMP attempts and the TCP attempts of the ping call, in order
IcmpAttempts == SelectSeq(probe.attempts, LAMBDA a : a[1] = "icmp")
TcpAttempts == SelectSeq(probe.attempts, LAMBDA a : a[1] = "tcp")

\* C32: within one ping call at most retries + 1 ICMP attempts are made,
\* only with an ICMP client, and all of them before any TCP attempt; TCP
\* attempts are made only if no ICMP attempt got a reply, port by port in
\* the order of the candidate list for at most retries + 1 passes; after
\* the first answered attempt of either kind the call has returned.
C32_AttemptOrder ==
    /\ Len(IcmpAttempts) <= probe.retries + 1
    /\ ~probe.icmp_client => IcmpAttempts = << >>
    /\ probe.attempts = IcmpAttempts \o TcpAttempts
    /\ \A i \in DOMAIN IcmpAttempts : IcmpAttempts[i][2] = i - 1
    /\ TcpAttempts # << >> =>
          /\ ~IcmpReplied
          /\ probe.icmp_client => Len(IcmpAttempts) = probe.retries + 1
    /\ Len(TcpAttempts) <= (probe.retries + 1) * Len(TcpPorts)
    /\ \A k \in DOMAIN TcpAttempts :
          TcpAttempts[k][2] = TcpPorts[((k - 1) % Len(TcpPorts)) + 1]
    /\ IcmpReplied \/ TcpReplied => probe.pc = "done"

\* C32 witness: with an ICMP client and one retry, both ICMP attempts and
\* a whole pass over the candidate ports went unanswered, and the port 443
\* answered in the second pass
C32_Witness ==
    /\ probe.pc = "done"
    /\ probe.icmp_client
    /\ probe.retries = 1
    /\ Len(IcmpAttempts) = 2
    /\ Len(TcpAttempts) = Len(TcpPorts) + 2
    /\ TcpReplied

(* -------------------------------- C40 ---------------------------------- *)
\* C40: in every PingResult that ping returns, is_alive holds exactly when
\* rtt is present and exactly when status is not Offline; status
\* OnlineNoIcmp comes only with method Tcp, and an alive result with method
\* Icmp has status Online.
C40_ResultConsistent ==
    probe.pc = "done" =>
       LET r == probe.result IN
       /\ r.is_alive <=> r.rtt = "Some"
       /\ r.is_alive <=> r.status # "Offline"
       /\ r.rtt \in {"Some", "None"}
       /\ r.status \in {"Online", "OnlineNoIcmp", "Offline"}
       /\ r.method \in {"Icmp", "Tcp"}
       /\ r.status = "OnlineNoIcmp" => r.method = "Tcp"
       /\ r.is_alive /\ r.method = "Icmp" => r.status = "Online"

\* C40 witness: ping returned the reply to its second ICMP attempt
C40_Witness ==
    /\ probe.pc = "done"
    /\ probe.result.is_alive
    /\ probe.result.method = "Icmp"
    /\ Len(probe.attempts) = 2

(* -------------------------------- C33 ---------------------------------- *)
\* C33: scan_port makes one connect attempt for its port and reports the
\* port open exactly when the connection was established within the
\* timeout; a refused connection, another error and a timeout report it
\* closed.
C33_OpenIffConnected ==
    /\ [](\A w \in PortWorkers :
            pscan.wpc[w] = "send" =>
               /\ pscan.wconn[w] \in TcpOutcomes
               /\ pscan.wopen[w] <=> pscan.wconn[w] = "connected")
    /\ [][\A w \in PortWorkers :
            /\ pscan.wpc[w] = "connect" /\ pscan'.wpc[w] # "connect" =>
                  /\ pscan'.wpc[w] = "send"
                  /\ pscan'.wport[w] = pscan.wport[w]
            /\ pscan.wpc[w] = "send" /\ pscan'.wpc[w] # "send" =>
                  pscan'.resultq =
                     Append(pscan.resultq,
                            [port |-> pscan.wport[w],
                             is_open |-> pscan.wconn[w] = "connected"])]_vars

\* C33 witness: a connect was refused and the result to send says closed
C33_Witness ==
    \E w \in PortWorkers :
       /\ pscan.wpc[w] = "send"
       /\ pscan.wconn[w] = "refused"
       /\ ~pscan.wopen[w]

(* -------------------------------- C37 ---------------------------------- *)
\* C37 (as claimed): with concurrent_limit 0 the one worker of scan_hosts
\* makes progress, and scan_hosts eventually terminates.
C37_ZeroLimitTerminates ==
    (run.limit = 0 /\ run.fpc = "feed") ~> run.fpc = "done"

(* -------------------------------- C38 ---------------------------------- *)
\* the resolve calls of ip whose lookup_addr is outstanding or has ended,
\* and which have not returned yet
LookedUp(ip) ==
    {c \in 1..MaxCalls :
        dns.calls[c].ip = ip /\ dns.calls[c].pc \in {"lookup", "store"}}

\* C38 (as claimed): among the resolve calls in progress together for one
\* IP at most one performs a reverse lookup.
C38_OneLookupPerIp ==
    \A ip \in DnsIps : Cardinality(LookedUp(ip)) <= 1

(* -------------------------------- C39 ---------------------------------- *)
\* C39 (as claimed): when save_cache returns, whatever file operations
\* failed in it, either the cache file holds the new document or load_cache
\* returns for every key what it returned before the call.
C39_FailedSaveKeepsEntries ==
    [][SaveDone =>
          \/ disk_cache' = save.json
          \/ \A K \in CacheKeys :
                load_cache(disk_cache', K) = load_cache(save.old, K)]_vars

(* -------------------------------- C34 ---------------------------------- *)
\* the fields of the session, the tasks of the run and both channels
SessionAndRun ==
    <<scan_state, hosts, table_selected, scan_total, scan_completed,
      scan_cancel_tx, range_input, input_mode, scan_rx, run>>

\* C34: pause_scan in a state other than Scanning and resume_scan in a
\* state other than Paused change nothing (scan state, hosts, counters,
\* handles, channels); pause_scan in Scanning is never blocked, with a
\* cancel signal pending or without a handle too, and leaves the session
\* Paused in that one step.
C34_PauseResumeFrame ==
    /\ [](ENABLED PauseCall /\ ENABLED ResumeCall)
    /\ [][/\ PauseCall /\ scan_state # "Scanning" =>
                UNCHANGED SessionAndRun
          /\ ResumeCall /\ scan_state # "Paused" =>
                UNCHANGED SessionAndRun
          /\ PauseCall /\ scan_state = "Scanning" =>
                /\ scan_state' = "Paused"
                /\ UNCHANGED <<hosts, table_selected, scan_total,
                               scan_completed, scan_cancel_tx, range_input,
                               input_mode, scan_rx>>]_vars

\* C34 witness: pause_scan was called on a Completed session with hosts
C34_Witness ==
    /\ command = "pause_scan"
    /\ scan_state = "Completed"
    /\ hosts # << >>
    /\ scan_cancel_tx = "None"

(* -------------------------------- C35 ---------------------------------- *)
\* C35 (as claimed): a session that is Scanning has a run in flight, so
\* under fair scheduling it does not stay Scanning for ever: it reaches
\* Completed unless the user acts (in normal mode every key that does
\* something while Scanning leaves Scanning or normal mode).
C35_ScanningCompletes ==
    []<>(scan_state # "Scanning" \/ input_mode # "Normal")

(* -------------------------------- C31 ---------------------------------- *)
\* C31: a ping result received by the consumer loop yields exactly one
\* HostDiscovered event, for that address and with that is_alive, whatever
\* the lookups return; a lookup that finds nothing leaves hostname or mac
\* None; the hostname is looked up only for an alive host with
\* resolve_hostnames, the MAC address only for an alive host with
\* detect_mac.
C31_OneEventPerResult ==
    /\ enrich.dns # "untried" =>
          enrich.is_alive /\ enrich.resolve_hostnames
    /\ enrich.arp # "untried" => enrich.is_alive /\ enrich.detect_mac
    /\ enrich.pc \in {"dns", "mac", "send"} => enrich.sent = << >>
    /\ enrich.pc = "done" =>
          /\ Len(enrich.sent) = 1
          /\ enrich.sent[1].type = "HostDiscovered"
          /\ enrich.sent[1].ip = enrich.ip
          /\ enrich.sent[1].is_alive = enrich.is_alive
          /\ enrich.sent[1].hostname =
                IF enrich.dns = "untried" THEN "None" ELSE enrich.dns
          /\ enrich.sent[1].mac =
                IF enrich.arp = "untried" THEN "None" ELSE enrich.arp
          /\ enrich.dns # "untried" <=>
                enrich.is_alive /\ enrich.resolve_hostnames
          /\ enrich.arp # "untried" <=> enrich.is_alive /\ enrich.detect_mac

\* C31 witness: both lookups of an alive host found nothing, and its event
\* was sent without hostname and mac
C31_Witness ==
    /\ enrich.pc = "done"
    /\ enrich.is_alive
    /\ enrich.dns = "None"
    /\ enrich.arp = "None"
    /\ Len(enrich.sent) = 1
    /\ enrich.sent[1].delivered

(* -------------------------------- C36 ---------------------------------- *)
\* every record of the session is a result of the current run: there are
\* scan_completed of them, and no more for an address than the run was
\* given
OfCurrentRun ==
    /\ Len(hosts) = scan_completed
    /\ \A ip \in 1..(MaxAddrs + 1) :
          Cardinality({i \in DOMAIN hosts : hosts[i].ip = ip})
             <= Count(run.addresses, ip)

\* C36: once a start or resume has installed a new run, no event of an
\* earlier run is applied to the session (hosts and scan_completed come from
\* the current run only), and the consumer loop of the earlier run
\* eventually ends.
C36_EarlierRunCutOff ==
    /\ []OfCurrentRun
    /\ (earlier.cpc \in {"select", "send_host", "send_complete"})
          ~> (earlier.cpc = "done")

\* C36 witness: a run whose consumer was still selecting was replaced; the
\* new run has delivered a result and the consumer of the old one has ended
C36_Witness ==
    /\ earlier.cpc = "done"
    /\ earlier.left > 0
    /\ scan_state = "Scanning"
    /\ scan_completed > 0

====
